---- MODULE Spec2Model ----
(***************************************************************************)
(* A model of pecunio: the transfer ledger (wallets, transfers, reversals, *)
(* the sequence counter), the recurrence engine of scheduled transfers and *)
(* the application service that drives them.                               *)
(*                                                                         *)
(* Instants (chrono DateTime<Utc>) are integers: an instant is             *)
(* (day * SecsPerDay + second) * SubsPerSec + sub, where day counts the    *)
(* days of the proleptic Gregorian calendar from 1970-01-01, second is the *)
(* whole second of the day and sub its sub-second part.  The scale is      *)
(* coarse (SecsPerDay seconds in a day) but keeps the three parts apart.   *)
(***************************************************************************)
EXTENDS Integers, Sequences, FiniteSets, TLC

VARIABLES
    wallets,           \* wallets table: name -> row
    transfers,         \* transfers table, in insertion order
    sequence_counter,  \* sequence_counter.value of 'transfer_sequence'
    schedules,         \* scheduled_transfers table: name -> row
    now,               \* the clock read by Utc::now()
    lastOp,            \* the last service call and what it returned
    procs,             \* the position and locals of each call in flight
    fn                 \* the pure function last applied: input and result

vars == <<wallets, transfers, sequence_counter, schedules, now, lastOp, procs, fn>>

\* ---------------------------------------------------------------- bounds

\* seconds modelled per day, and sub-second steps per second
SecsPerDay == 2
SubsPerSec == 2
\* longest transfer list given to the pure ledger functions
MaxLen == 3
\* most transfers persisted in the service specifications
MaxTransfers == 3
MaxScheduled == 4

\* ------------------------------------------------------------- optionals

\* Option::None of an optional instant, and of an optional transfer id
NoDate == 0 - 1
NoId == 0

\* the element of a one-element set: Only({e : x \in {v}}) is e with x bound to
\* the value of v, computed once
Only(S) == CHOOSE x \in S : TRUE

\* ---------------------------------------------------------------- dates

TicksPerDay == SecsPerDay * SubsPerSec

IsLeap(y) == (y % 4 = 0 /\ y % 100 # 0) \/ y % 400 = 0

DaysInMonth(y, m) ==
    IF m = 2 THEN (IF IsLeap(y) THEN 29 ELSE 28)
    ELSE IF m \in {4, 6, 9, 11} THEN 30 ELSE 31

\* the day number of the day d of the month m of the year yy that starts in March
DaysFromShifted(yy, m, d) ==
    Only({era * 146097
          + (yoe * 365 + yoe \div 4 - yoe \div 100
             + (153 * (IF m > 2 THEN m - 3 ELSE m + 9) + 2) \div 5 + d - 1)
          - 719468 :
          <<era, yoe>> \in {<<yy \div 400, yy - (yy \div 400) * 400>>}})

\* NaiveDate from its year, month and day: the day number from 1970-01-01
DaysFromCivil(y, m, d) ==
    Only({DaysFromShifted(yy, m, d) : yy \in {IF m <= 2 THEN y - 1 ELSE y}})

\* year, month and day of a day number, from the day of the year counted from
\* March 1 (doy), the year of the 400-year era (yoe) and the era
CivilOfDoy(era, yoe, doy) ==
    Only({[year |-> IF mp < 10 THEN yoe + era * 400 ELSE yoe + era * 400 + 1,
           month |-> IF mp < 10 THEN mp + 3 ELSE mp - 9,
           day |-> doy - (153 * mp + 2) \div 5 + 1] :
          mp \in {(5 * doy + 2) \div 153}})

CivilOfYoe(era, doe, yoe) ==
    Only({CivilOfDoy(era, yoe, doy) :
          doy \in {doe - (365 * yoe + yoe \div 4 - yoe \div 100)}})

CivilOfDoe(era, doe) ==
    Only({CivilOfYoe(era, doe, yoe) :
          yoe \in {(doe - doe \div 1460 + doe \div 36524 - doe \div 146096) \div 365}})

\* year, month and day of a day number
CivilFromDays(z) ==
    Only({CivilOfDoe(era, (z + 719468) - era * 146097) :
          era \in {(z + 719468) \div 146097}})

\* date.date_naive(), and the time of day of an instant
DayOf(t) == t \div TicksPerDay
SecOf(t) == (t % TicksPerDay) \div SubsPerSec
SubOf(t) == t % SubsPerSec

\* naive.and_hms_opt(h, m, s).and_utc(): whole seconds, no sub-second part
AndHms(day, sec) == (day * SecsPerDay + sec) * SubsPerSec

\* an instant at second sec (+ sub) of the day y-m-d
At(y, m, d, sec, sub) == AndHms(DaysFromCivil(y, m, d), sec) + sub
Date(y, m, d) == At(y, m, d, 0, 0)

\* Duration::days(n)
Days(n) == n * TicksPerDay

\* ------------------------------------------------------ recurrence engine

Patterns == {"Daily", "Weekly", "Monthly", "Yearly"}
Statuses == {"Active", "Paused", "Completed"}

\* add_one_month on the calendar date naive: the same day of the next month,
\* or that month's last day
NextMonthDay(naive) ==
    Only({IF naive.day <= DaysInMonth(ym[1], ym[2])
          THEN DaysFromCivil(ym[1], ym[2], naive.day)
          ELSE \* first of the month after, less one day
               DaysFromCivil(IF ym[2] = 12 THEN ym[1] + 1 ELSE ym[1],
                             IF ym[2] = 12 THEN 1 ELSE ym[2] + 1, 1) - 1 :
          \* naive.with_day(1).checked_add_months(Months::new(1))
          ym \in {IF naive.month = 12 THEN <<naive.year + 1, 1>>
                  ELSE <<naive.year, naive.month + 1>>}})

\* ScheduledTransfer::add_one_month
add_one_month(date) ==
    Only({AndHms(NextMonthDay(naive), SecOf(date)) :
          naive \in {CivilFromDays(DayOf(date))}})

\* add_one_year on the calendar date naive: the same day next year, Feb 29
\* becoming Feb 28
NextYearDay(naive) ==
    IF naive.day <= DaysInMonth(naive.year + 1, naive.month)
    THEN DaysFromCivil(naive.year + 1, naive.month, naive.day)
    ELSE DaysFromCivil(naive.year + 1, naive.month, 28)

\* ScheduledTransfer::add_one_year
add_one_year(date) ==
    Only({AndHms(NextYearDay(naive), SecOf(date)) :
          naive \in {CivilFromDays(DayOf(date))}})

\* the match on self.pattern with a Daily arm that adds no day
Advance_DailyStuck(pattern, date) ==
    CASE pattern = "Daily" -> date
      [] pattern = "Weekly" -> date + Days(7)
      [] pattern = "Monthly" -> add_one_month(date)
      [] pattern = "Yearly" -> add_one_year(date)

\* the match on self.pattern shared by next_execution_date and pending_executions
Advance(pattern, date) ==
    CASE pattern = "Daily" -> date + Days(1)
      [] pattern = "Weekly" -> date + Days(7)
      [] pattern = "Monthly" -> add_one_month(date)
      [] pattern = "Yearly" -> add_one_year(date)

\* self.last_executed_at.unwrap_or(self.start_date)
ReferenceDate(st) ==
    IF st.last_executed_at # NoDate THEN st.last_executed_at ELSE st.start_date

\* next_execution_date without the test of end_date
next_execution_date_NoEndTest(st, t) ==
    IF st.status # "Active" THEN NoDate
    ELSE IF ReferenceDate(st) > t THEN ReferenceDate(st)
    ELSE Advance(st.pattern, ReferenceDate(st))

\* ScheduledTransfer::next_execution_date; NoDate is None
next_execution_date(st, t) ==
    IF st.status # "Active" THEN NoDate
    ELSE IF ReferenceDate(st) > t THEN ReferenceDate(st)
    ELSE Only({IF st.end_date # NoDate /\ next > st.end_date THEN NoDate ELSE next :
               next \in {Advance(st.pattern, ReferenceDate(st))}})

\* is_due that looks at no end_date
is_due_NoEndTest(st, t) ==
    IF st.status # "Active" THEN FALSE
    ELSE IF st.last_executed_at = NoDate /\ st.start_date <= t THEN TRUE
    ELSE \E next_date \in {next_execution_date_NoEndTest(st, ReferenceDate(st))} :
            IF next_date # NoDate THEN next_date <= t ELSE FALSE

\* ScheduledTransfer::is_due
is_due(st, t) ==
    IF st.status # "Active" THEN FALSE
    ELSE IF st.last_executed_at = NoDate /\ st.start_date <= t THEN TRUE
    ELSE \E next_date \in {next_execution_date(st, ReferenceDate(st))} :
            IF next_date # NoDate THEN next_date <= t ELSE FALSE

\* the loop of pending_executions without the test of end_date
RECURSIVE PendingLoop_NoEndTest(_, _, _, _)
PendingLoop_NoEndTest(st, current, t, executions) ==
    Only({IF next > t THEN executions
          ELSE PendingLoop_NoEndTest(st, next, t, Append(executions, next)) :
             next \in {Advance(st.pattern, current)}})

\* the loop of pending_executions; next is computed once per iteration
RECURSIVE PendingLoop(_, _, _, _)
PendingLoop(st, current, t, executions) ==
    Only({IF next > t THEN executions
          ELSE IF st.end_date # NoDate /\ next > st.end_date THEN executions
          ELSE PendingLoop(st, next, t, Append(executions, next)) :
             next \in {Advance(st.pattern, current)}})

\* pending_executions without the check of the status
pending_executions_AnyStatus(st, t) ==
    LET current == ReferenceDate(st) IN
    IF current > t THEN <<>>
    ELSE IF st.last_executed_at = NoDate /\ st.start_date <= t
         THEN PendingLoop(st, st.start_date, t, <<st.start_date>>)
         ELSE PendingLoop(st, current, t, <<>>)

\* ScheduledTransfer::pending_executions
pending_executions(st, t) ==
    IF st.status # "Active" THEN <<>>
    ELSE LET current == ReferenceDate(st) IN
         IF current > t THEN <<>>
         ELSE IF st.last_executed_at = NoDate /\ st.start_date <= t
              THEN PendingLoop(st, st.start_date, t, <<st.start_date>>)
              ELSE PendingLoop(st, current, t, <<>>)

\* ---------------------------------------------------------------- ledger

\* Option<String>::None for a description
NoDescription == "<none>"

\* Transfer::new followed by the with_* setters: the fields of a transfer.
\* origin is not a field of the program's Transfer: it records which schedule
\* (if any) the transfer was created for, so that properties can speak of it.
Transfer(id, from_wallet, to_wallet, amount_cents, timestamp, category, reverses, origin) ==
    [id |-> id, sequence |-> 0, from_wallet |-> from_wallet, to_wallet |-> to_wallet,
     amount_cents |-> amount_cents, timestamp |-> timestamp,
     description |-> NoDescription, category |-> category,
     reverses |-> reverses, origin |-> origin]

\* HashMap::entry(k).or_insert(0), then += delta
EntryAdd(balances, k, delta) ==
    [w \in DOMAIN balances \cup {k} |->
        IF w = k THEN (IF k \in DOMAIN balances THEN balances[k] ELSE 0) + delta
        ELSE balances[w]]

\* the closure folded by compute_balance
BalanceStep(balance, transfer, wallet_id) ==
    IF transfer.to_wallet = wallet_id THEN balance + transfer.amount_cents
    ELSE IF transfer.from_wallet = wallet_id THEN balance - transfer.amount_cents
    ELSE balance

RECURSIVE BalanceFold(_, _, _, _)
BalanceFold(balance, ts, i, wallet_id) ==
    IF i > Len(ts) THEN balance
    ELSE BalanceFold(BalanceStep(balance, ts[i], wallet_id), ts, i + 1, wallet_id)

\* domain::compute_balance
compute_balance(wallet_id, ts) == BalanceFold(0, ts, 1, wallet_id)

\* the loop body with the credit inserted rather than added
AllBalancesStep_Insert(balances, transfer) ==
    LET debited == EntryAdd(balances, transfer.from_wallet, 0 - transfer.amount_cents)
    IN [w \in DOMAIN debited \cup {transfer.to_wallet} |->
           IF w = transfer.to_wallet THEN transfer.amount_cents ELSE debited[w]]

\* the body of the loop of compute_all_balances
AllBalancesStep(balances, transfer) ==
    EntryAdd(EntryAdd(balances, transfer.from_wallet, 0 - transfer.amount_cents),
             transfer.to_wallet, transfer.amount_cents)

RECURSIVE AllBalancesLoop(_, _, _)
AllBalancesLoop(balances, ts, i) ==
    IF i > Len(ts) THEN balances
    ELSE AllBalancesLoop(AllBalancesStep(balances, ts[i]), ts, i + 1)

\* domain::compute_all_balances
compute_all_balances(ts) == AllBalancesLoop(<<>>, ts, 1)

\* balances.values().sum()
RECURSIVE SumValues(_, _)
SumValues(balances, keys) ==
    IF keys = {} THEN 0
    ELSE LET k == CHOOSE x \in keys : TRUE
         IN balances[k] + SumValues(balances, keys \ {k})

RECURSIVE ReversedLoop(_, _, _)
ReversedLoop(original_id, ts, i) ==
    IF i > Len(ts) THEN 0
    ELSE (IF ts[i].reverses = original_id THEN ts[i].amount_cents ELSE 0)
         + ReversedLoop(original_id, ts, i + 1)

\* domain::total_reversed_amount
total_reversed_amount(original_id, ts) == ReversedLoop(original_id, ts, 1)

\* validate_reversal that forgets what is reversed already
validate_reversal_Stale(original, reversal_amount, all_transfers) ==
    IF reversal_amount > original.amount_cents
    THEN [err |-> "ExceedsOriginalAmount",
          original_amount |-> original.amount_cents,
          already_reversed |-> 0,
          requested |-> reversal_amount]
    ELSE [err |-> "Ok"]

\* domain::validate_reversal: Ok, or ExceedsOriginalAmount with its three fields
validate_reversal(original, reversal_amount, all_transfers) ==
    LET already_reversed == total_reversed_amount(original.id, all_transfers) IN
    IF already_reversed + reversal_amount > original.amount_cents
    THEN [err |-> "ExceedsOriginalAmount",
          original_amount |-> original.amount_cents,
          already_reversed |-> already_reversed,
          requested |-> reversal_amount]
    ELSE [err |-> "Ok"]

\* ------------------------------------------------------------ state space

\* Option::None of a category, and of the schedule a transfer was made for
NoCategory == "<none>"
NoOrigin == "<none>"

\* wallet names (one wallet id per name) and schedule names
WalletNames == {"A", "B"}
ScheduleNames == {"S"}

\* a row that is not in its table
Absent == [exists |-> FALSE]

\* the tables of a freshly initialised database (Repository::init)
EmptyWallets == [w \in WalletNames |-> Absent]
EmptySchedules == [s \in ScheduleNames |-> Absent]
NoOp == [op |-> "none", res |-> "none"]
NoProcs == <<>>
NoFn == [op |-> "none"]

\* all sequences over S of length at most n
SeqsUpTo(S, n) == UNION {[1..k -> S] : k \in 0..n}

\* --------------------------------------------- the pure ledger functions

LedgerWallets == {"A", "B", "C"}
LedgerAmounts == {200, 500}
ReversalAmounts == {4000, 6000}
RequestedAmounts == {4000, 5000, 6000, 15000}
LedgerInstant == Date(2024, 1, 1)

\* transfers between any two wallets, the same wallet twice included
BalanceShapes ==
    {Transfer(10, f, t, a, LedgerInstant, NoCategory, NoId, NoOrigin) :
        f \in LedgerWallets, t \in LedgerWallets, a \in LedgerAmounts}

\* transfers that reverse transfer 1, transfer 2 or nothing
ReversalShapes ==
    {Transfer(10, "B", "A", a, LedgerInstant, NoCategory, r, NoOrigin) :
        a \in ReversalAmounts, r \in {NoId, 1, 2}}

\* the originals a reversal is validated against
Originals ==
    {Transfer(1, "A", "B", 10000, LedgerInstant, NoCategory, NoId, NoOrigin),
     Transfer(2, "A", "B", 6000, LedgerInstant, NoCategory, NoId, NoOrigin)}

\* every transfer of a list has its own id
WithIds(l) == [i \in DOMAIN l |-> [l[i] EXCEPT !.id = 10 + i]]

InitLedger ==
    /\ wallets = EmptyWallets
    /\ transfers = <<>>
    /\ sequence_counter = 0
    /\ schedules = EmptySchedules
    /\ now = LedgerInstant
    /\ lastOp = NoOp
    /\ procs = NoProcs
    /\ \/ \E l \in SeqsUpTo(BalanceShapes, MaxLen) :
             fn = [op |-> "input", kind |-> "balances", ts |-> WithIds(l)]
       \/ \E l \in SeqsUpTo(ReversalShapes, MaxLen) :
             fn = [op |-> "input", kind |-> "reversals", ts |-> WithIds(l)]

ApplyComputeAllBalances ==
    /\ fn.op = "input" /\ fn.kind = "balances"
    /\ fn' = [op |-> "compute_all_balances", ts |-> fn.ts,
              out |-> compute_all_balances(fn.ts)]
    /\ UNCHANGED <<wallets, transfers, sequence_counter, schedules, now, lastOp, procs>>

ApplyValidateReversal ==
    /\ fn.op = "input" /\ fn.kind = "reversals"
    /\ \E original \in Originals, reversal_amount \in RequestedAmounts :
          fn' = [op |-> "validate_reversal", original |-> original,
                 amount |-> reversal_amount, ts |-> fn.ts,
                 out |-> validate_reversal(original, reversal_amount, fn.ts)]
    /\ UNCHANGED <<wallets, transfers, sequence_counter, schedules, now, lastOp, procs>>

NextLedger == ApplyComputeAllBalances \/ ApplyValidateReversal

SpecLedger == InitLedger /\ [][NextLedger]_vars

\* C1: closed system: the values of the map compute_all_balances returns sum
\* to exactly 0, for every list of transfers with positive amounts, a transfer
\* from a wallet to itself included.
C1_BalancesSumToZero ==
    fn.op = "compute_all_balances" => SumValues(fn.out, DOMAIN fn.out) = 0

\* a list with a self-transfer and a wallet left with a non-zero balance
C1_Witness ==
    /\ fn.op = "compute_all_balances"
    /\ \E i \in DOMAIN fn.ts : fn.ts[i].from_wallet = fn.ts[i].to_wallet
    /\ \E w \in DOMAIN fn.out : fn.out[w] # 0
    /\ Len(fn.ts) = MaxLen

\* the sum of the amounts of the transfers of ts that reverse id
RECURSIVE SumReversing(_, _, _)
SumReversing(ts, id, idx) ==
    IF idx = {} THEN 0
    ELSE LET i == CHOOSE x \in idx : TRUE
         IN (IF ts[i].reverses = id THEN ts[i].amount_cents ELSE 0)
            + SumReversing(ts, id, idx \ {i})

ReversedOf(ts, id) == SumReversing(ts, id, DOMAIN ts)

\* C3: validate_reversal returns ExceedsOriginalAmount{original_amount,
\* already_reversed, requested} exactly when already_reversed + amount exceeds
\* the original's amount, already_reversed being the sum of the transfers that
\* reverse the original, and Ok otherwise; a second reversal of 6000 after a
\* first of 6000 against a 10000 original fails.
C3_ValidateReversalExact ==
    fn.op = "validate_reversal" =>
        LET already == ReversedOf(fn.ts, fn.original.id)
            exceeds == already + fn.amount > fn.original.amount_cents
        IN /\ exceeds =>
                fn.out = [err |-> "ExceedsOriginalAmount",
                          original_amount |-> fn.original.amount_cents,
                          already_reversed |-> already,
                          requested |-> fn.amount]
           /\ ~exceeds => fn.out = [err |-> "Ok"]
           /\ (/\ fn.original.amount_cents = 10000
               /\ fn.amount = 6000
               /\ Len(fn.ts) = 1
               /\ fn.ts[1].reverses = fn.original.id
               /\ fn.ts[1].amount_cents = 6000)
              => fn.out.err = "ExceedsOriginalAmount"

\* 6000 asked of a 10000 original of which 6000 are reversed already
C3_Witness ==
    /\ fn.op = "validate_reversal"
    /\ fn.original.amount_cents = 10000
    /\ fn.amount = 6000
    /\ Len(fn.ts) = 1
    /\ fn.ts[1].reverses = fn.original.id
    /\ fn.ts[1].amount_cents = 6000
    /\ fn.out.err = "ExceedsOriginalAmount"

\* ------------------------------------------ the pure recurrence functions

\* a ScheduledTransfer row (ScheduledTransfer::new, with_end_date, with_category)
Schedule(from_wallet, to_wallet, amount_cents, pattern, start_date, end_date, category) ==
    [exists |-> TRUE, from_wallet |-> from_wallet, to_wallet |-> to_wallet,
     amount_cents |-> amount_cents, pattern |-> pattern, start_date |-> start_date,
     end_date |-> end_date, last_executed_at |-> NoDate,
     description |-> NoDescription, category |-> category, status |-> "Active"]

RecurStarts ==
    {Date(2024, 1, 1), Date(2024, 1, 15), At(2024, 1, 31, 1, 1), Date(2024, 2, 29),
     Date(2024, 6, 1)}
RecurEnds == {NoDate, Date(2024, 1, 3), Date(2024, 3, 15)}
RecurLasts == {NoDate, Date(2024, 1, 2), At(2024, 2, 29, 1, 1)}
\* the instants a schedule is queried at: days ahead for the patterns that
\* advance by days, months ahead for those that advance by months
RecurNows(pattern) ==
    IF pattern \in {"Daily", "Weekly"}
    THEN {Date(2023, 12, 31), Date(2024, 1, 5), Date(2024, 1, 20)}
    ELSE {Date(2023, 12, 31), Date(2024, 1, 5), Date(2024, 3, 15), Date(2024, 12, 31),
          Date(2025, 3, 1)}

RecurSchedules ==
    {[Schedule("A", "B", 1000, p, s, e, NoCategory)
         EXCEPT !.last_executed_at = l, !.status = st] :
        p \in Patterns, s \in RecurStarts, e \in RecurEnds, l \in RecurLasts,
        st \in Statuses}

InitRecur ==
    /\ wallets = EmptyWallets
    /\ transfers = <<>>
    /\ sequence_counter = 0
    /\ schedules = EmptySchedules
    /\ lastOp = NoOp
    /\ procs = NoProcs
    /\ \E st \in RecurSchedules :
          /\ fn = [op |-> "input", st |-> st]
          /\ now \in RecurNows(st.pattern)

\* the three queries of a schedule at the instant now
ApplyRecurrence ==
    /\ fn.op = "input"
    /\ fn' = [op |-> "recurrence", st |-> fn.st,
              next |-> next_execution_date(fn.st, now),
              due |-> is_due(fn.st, now),
              pending |-> pending_executions(fn.st, now)]
    /\ UNCHANGED <<wallets, transfers, sequence_counter, schedules, now, lastOp, procs>>

NextRecur == ApplyRecurrence

SpecRecur == InitRecur /\ [][NextRecur]_vars

\* C10: a Paused or Completed schedule has no next execution date, is not due
\* and has no pending executions, whatever now, start_date, end_date and
\* last_executed_at are.
C10_InactiveProducesNothing ==
    (fn.op = "recurrence" /\ fn.st.status \in {"Paused", "Completed"}) =>
        /\ fn.next = NoDate
        /\ fn.due = FALSE
        /\ fn.pending = <<>>

\* a Paused schedule whose due date has long passed: Active, it would be due
\* with several executions pending
C10_Witness ==
    /\ fn.op = "recurrence"
    /\ fn.st.status = "Paused"
    /\ fn.st.last_executed_at = NoDate
    /\ fn.st.start_date + Days(5) <= now
    /\ Len(pending_executions([fn.st EXCEPT !.status = "Active"], now)) >= 3
    /\ fn.pending = <<>> /\ ~fn.due

\* C34: for every schedule and every now, is_due(now) is true if and only if
\* pending_executions(now) is not empty.
C34_DueIffPending ==
    fn.op = "recurrence" => (fn.due <=> fn.pending # <<>>)

\* an executed schedule that is due again, or one whose next date is past
\* its end_date and that is not due
C34_Witness ==
    /\ fn.op = "recurrence"
    /\ fn.st.status = "Active"
    /\ fn.st.last_executed_at # NoDate
    /\ fn.st.last_executed_at <= now
    /\ \/ fn.due /\ Len(fn.pending) >= 2
       \/ /\ fn.st.end_date # NoDate
          /\ Advance(fn.st.pattern, fn.st.last_executed_at) <= now
          /\ ~fn.due /\ fn.pending = <<>>

\* the number of the month of a calendar date, counted from year 0
MonthNumber(naive) == naive.year * 12 + naive.month

\* C39: a Monthly schedule stays anchored to the day of month d of its start:
\* the k-th date generated after the start by pending_executions falls in the
\* k-th month after the start, on the day min(d, days of that month); from
\* Jan 31 the dates are Feb 29, Mar 31 and Apr 30 of 2024.
C39_MonthlyKeepsItsDay ==
    (/\ fn.op = "recurrence"
     /\ fn.st.pattern = "Monthly"
     /\ fn.st.status = "Active"
     /\ fn.st.last_executed_at = NoDate)
        => \E start \in {CivilFromDays(DayOf(fn.st.start_date))} :
              \A k \in 1..(Len(fn.pending) - 1) :
                 \E naive \in {CivilFromDays(DayOf(fn.pending[k + 1]))} :
                    /\ MonthNumber(naive) = MonthNumber(start) + k
                    /\ naive.day = IF start.day <= DaysInMonth(naive.year, naive.month)
                                   THEN start.day
                                   ELSE DaysInMonth(naive.year, naive.month)

\* the dates of a list of pending executions
PendingDates(pending) == {pending[i] : i \in 1..Len(pending)}

\* C12: every date returned by pending_executions(now) is at or before now and,
\* when end_date is set, at or before end_date, the start_date a never-executed
\* schedule returns first included, whatever start_date, end_date,
\* last_executed_at and now are.
C12_PendingWithinNowAndEnd ==
    fn.op = "recurrence" =>
        \A d \in PendingDates(fn.pending) :
            /\ d <= now
            /\ fn.st.end_date # NoDate => d <= fn.st.end_date

\* the date the loop of pending_executions tests after the list pending: the
\* advance of its last element, or of the reference date when it is empty
NextCandidate(st, pending) ==
    Advance(st.pattern, IF pending = <<>> THEN ReferenceDate(st)
                        ELSE pending[Len(pending)])

\* the elements of pending the loop pushed: all but the start_date a
\* never-executed schedule begins with
Advanced(st, pending) ==
    {i \in 1..Len(pending) : st.last_executed_at # NoDate \/ i > 1}

\* C13: for an Active schedule pending_executions(now) is strictly increasing;
\* never executed with start_date <= now it begins with start_date; executed
\* last at d its first element, when there is one, is the one-period advance
\* of d; every later element is the advance of the one before; the list stops
\* at the first candidate after now or after end_date. Daily from 2024-01-01
\* at 2024-01-05 gives exactly the five dates Jan 1 to Jan 5.
C13_PendingIsTheAdvanceChain ==
    (fn.op = "recurrence" /\ fn.st.status = "Active") =>
        LET st == fn.st
            p == fn.pending
        IN  /\ \A i \in 1..(Len(p) - 1) :
                   p[i] < p[i + 1] /\ p[i + 1] = Advance(st.pattern, p[i])
            /\ (st.last_executed_at = NoDate /\ st.start_date <= now) =>
                   (p # <<>> /\ p[1] = st.start_date)
            /\ (st.last_executed_at # NoDate /\ p # <<>>) =>
                   p[1] = Advance(st.pattern, st.last_executed_at)
            /\ \A i \in Advanced(st, p) :
                   p[i] <= now /\ (st.end_date # NoDate => p[i] <= st.end_date)
            /\ \E next \in {NextCandidate(st, p)} :
                   next > now \/ (st.end_date # NoDate /\ next > st.end_date)
            /\ (/\ st.pattern = "Daily" /\ st.start_date = Date(2024, 1, 1)
                /\ st.last_executed_at = NoDate /\ st.end_date = NoDate
                /\ now = Date(2024, 1, 5)) =>
                   p = <<Date(2024, 1, 1), Date(2024, 1, 2), Date(2024, 1, 3),
                         Date(2024, 1, 4), Date(2024, 1, 5)>>

\* the Daily schedule of 2024-01-01 queried on 2024-01-05: five dates pending
C13_Witness ==
    /\ fn.op = "recurrence" /\ fn.st.status = "Active"
    /\ fn.st.pattern = "Daily" /\ fn.st.start_date = Date(2024, 1, 1)
    /\ fn.st.last_executed_at = NoDate /\ fn.st.end_date = NoDate
    /\ now = Date(2024, 1, 5)
    /\ Len(fn.pending) = 5

\* C14: next_execution_date(now) of an Active schedule whose reference date r
\* is last_executed_at, else start_date: r itself when r > now; otherwise r
\* advanced by one period (Daily one day, Weekly seven days, Monthly one month,
\* Yearly one year), or None when end_date is set and the advanced date is
\* after it.
C14_NextExecutionDate ==
    (fn.op = "recurrence" /\ fn.st.status = "Active") =>
        LET st == fn.st
            r == IF st.last_executed_at # NoDate THEN st.last_executed_at
                 ELSE st.start_date
            advanced == CASE st.pattern = "Daily" -> r + TicksPerDay
                          [] st.pattern = "Weekly" -> r + 7 * TicksPerDay
                          [] st.pattern = "Monthly" -> add_one_month(r)
                          [] st.pattern = "Yearly" -> add_one_year(r)
        IN  /\ r > now => fn.next = r
            /\ r <= now =>
                   fn.next = IF st.end_date # NoDate /\ advanced > st.end_date
                             THEN NoDate ELSE advanced
            /\ (r = Date(2024, 1, 1) /\ r <= now /\ st.end_date = NoDate) =>
                   fn.next = CASE st.pattern = "Daily" -> Date(2024, 1, 2)
                               [] st.pattern = "Weekly" -> Date(2024, 1, 8)
                               [] st.pattern = "Monthly" -> Date(2024, 2, 1)
                               [] st.pattern = "Yearly" -> Date(2025, 1, 1)

\* a reference date that has passed whose advance falls after end_date: the
\* schedule is exhausted
C14_Witness ==
    /\ fn.op = "recurrence" /\ fn.st.status = "Active"
    /\ fn.st.pattern = "Weekly"
    /\ fn.st.last_executed_at = Date(2024, 1, 2)
    /\ fn.st.end_date = Date(2024, 1, 3)
    /\ now = Date(2024, 1, 5)
    /\ fn.next = NoDate

\* ------------------------------------------- the calendar advancements

CalendarYears == {2023, 2024}
CalendarDays == {1, 15, 28, 29, 30, 31}

\* the instants advanced: the days of CalendarDays that exist, in every month
\* of CalendarYears, at every second and sub-second of the day
CalendarInstants ==
    {At(ymd[1], ymd[2], ymd[3], sec, sub) :
        ymd \in {c \in CalendarYears \X (1..12) \X CalendarDays :
                    c[3] <= DaysInMonth(c[1], c[2])},
        sec \in 0..(SecsPerDay - 1),
        sub \in 0..(SubsPerSec - 1)}

InitCalendar ==
    /\ wallets = EmptyWallets
    /\ transfers = <<>>
    /\ sequence_counter = 0
    /\ schedules = EmptySchedules
    /\ lastOp = NoOp
    /\ procs = NoProcs
    /\ now = Date(2024, 1, 1)
    /\ \E date \in CalendarInstants : fn = [op |-> "input", date |-> date]

\* add_one_month and add_one_year of the same instant
ApplyAdvance ==
    /\ fn.op = "input"
    /\ fn' = [op |-> "advance", date |-> fn.date,
              month |-> add_one_month(fn.date), year |-> add_one_year(fn.date)]
    /\ UNCHANGED <<wallets, transfers, sequence_counter, schedules, now, lastOp, procs>>

NextCalendar == ApplyAdvance

SpecCalendar == InitCalendar /\ [][NextCalendar]_vars

\* from is the calendar date of an instant and to that of its Monthly advance:
\* the month after, on the same day or on that month's last day
MonthlyDate(from, to) ==
    /\ to.year = (IF from.month = 12 THEN from.year + 1 ELSE from.year)
    /\ to.month = (IF from.month = 12 THEN 1 ELSE from.month + 1)
    /\ to.day = (IF from.day <= DaysInMonth(to.year, to.month) THEN from.day
                 ELSE DaysInMonth(to.year, to.month))

\* the instant to falls at the time of day of the instant from
SameTimeOfDay(from, to) == to - DayOf(to) * TicksPerDay = from - DayOf(from) * TicksPerDay

\* C15: the Monthly advance of any date falls in the month after (January of
\* the next year after December), on the day min(d, days of that month), at
\* the same time of day; never in a later month. 2024-01-31 gives 2024-02-29
\* and 2023-01-31 gives 2023-02-28.
C15_MonthlyAdvance ==
    fn.op = "advance" =>
        /\ MonthlyDate(CivilFromDays(DayOf(fn.date)), CivilFromDays(DayOf(fn.month)))
        /\ SameTimeOfDay(fn.date, fn.month)
        /\ fn.date = Date(2024, 1, 31) => fn.month = Date(2024, 2, 29)
        /\ fn.date = Date(2023, 1, 31) => fn.month = Date(2023, 2, 28)

\* from is the calendar date of an instant and to that of its Yearly advance:
\* the same month and day a year later, Feb 28 for a Feb 29 that the next year
\* does not have
YearlyDate(from, to) ==
    /\ to.year = from.year + 1
    /\ to.month = from.month
    /\ to.day = (IF from.month = 2 /\ from.day = 29 /\ ~IsLeap(from.year + 1)
                 THEN 28 ELSE from.day)

\* C16: the Yearly advance of any date falls on the same month and day of the
\* next year at the same time of day, Feb 29 becoming Feb 28 when the next
\* year is not a leap year.
C16_YearlyAdvance ==
    fn.op = "advance" =>
        /\ YearlyDate(CivilFromDays(DayOf(fn.date)), CivilFromDays(DayOf(fn.year)))
        /\ fn.year - DayOf(fn.year) * TicksPerDay = fn.date - DayOf(fn.date) * TicksPerDay
        /\ fn.date = Date(2024, 2, 29) => fn.year = Date(2025, 2, 28)

\* ------------------------------------------------------------ repository

\* Option<Cents>: None and Some(v)
None == <<>>
Some(v) == <<v>>

\* Wallet::new: only assets may not go negative
Wallet(wallet_type, currency) ==
    [exists |-> TRUE, wallet_type |-> wallet_type, currency |-> currency,
     allow_negative |-> (wallet_type # "Asset"), archived_at |-> NoDate]

\* Wallet::is_archived
is_archived(wallet) == wallet.archived_at # NoDate

\* Repository::compute_balance: SUM(CASE to) - SUM(CASE from) over the table
RECURSIVE SumWhere(_, _, _, _)
SumWhere(ts, i, field, value) ==
    IF i > Len(ts) THEN 0
    ELSE (IF ts[i][field] = value THEN ts[i].amount_cents ELSE 0)
         + SumWhere(ts, i + 1, field, value)

repo_compute_balance(ts, wallet_id) ==
    SumWhere(ts, 1, "to_wallet", wallet_id) - SumWhere(ts, 1, "from_wallet", wallet_id)

\* get_total_reversed that counts full reversals only
get_total_reversed_FullOnly(ts, transfer_id) ==
    IF \E i \in DOMAIN ts : /\ ts[i].reverses = transfer_id
                            /\ \E j \in DOMAIN ts : /\ ts[j].id = transfer_id
                                                    /\ ts[j].amount_cents = ts[i].amount_cents
    THEN SumWhere(ts, 1, "reverses", transfer_id)
    ELSE 0

\* Repository::get_total_reversed: COALESCE(SUM(amount_cents), 0) WHERE reverses = ?
get_total_reversed(ts, transfer_id) == SumWhere(ts, 1, "reverses", transfer_id)

\* Repository::get_transfer: the row with this id, if any
has_transfer(ts, id) == \E i \in DOMAIN ts : ts[i].id = id
get_transfer(ts, id) == ts[CHOOSE i \in DOMAIN ts : ts[i].id = id]

\* next_sequence returning the counter without incrementing it
next_sequence_NoIncrement(counter) == counter

\* Repository::next_sequence: UPDATE ... SET value = value + 1 RETURNING value
next_sequence(counter) == counter + 1

\* save_transfer that writes a reversal over the row it reverses
save_transfer_OverOriginal(db, transfer) ==
    LET sequence == next_sequence(db.sequence_counter) IN
    [transfers |->
        IF \E i \in 1..Len(db.transfers) : db.transfers[i].id = transfer.reverses
        THEN [i \in 1..Len(db.transfers) |->
                 IF db.transfers[i].id = transfer.reverses
                 THEN [transfer EXCEPT !.sequence = sequence]
                 ELSE db.transfers[i]]
        ELSE Append(db.transfers, [transfer EXCEPT !.sequence = sequence]),
     sequence_counter |-> sequence]

\* Repository::save_transfer on the tables db = [transfers, sequence_counter]:
\* the counter is incremented, the row gets the new value and is inserted
save_transfer(db, transfer) ==
    LET sequence == next_sequence(db.sequence_counter) IN
    [transfers |-> Append(db.transfers, [transfer EXCEPT !.sequence = sequence]),
     sequence_counter |-> sequence]

\* the id of the next transfer created (Uuid::new_v4: an id not used before)
new_id(ts) == Len(ts) + 1

\* -------------------------------------------------------- ledger service

\* what a call returns and the tables it leaves
Returned(res, db) ==
    [res |-> res, transfers |-> db.transfers, sequence_counter |-> db.sequence_counter]

\* LedgerService::record_transfer
record_transfer(ws, db, from_name, to_name, amount_cents, timestamp, description, category, force, origin) ==
    IF amount_cents <= 0 THEN Returned("InvalidAmount", db)
    ELSE IF ~ws[from_name].exists \/ ~ws[to_name].exists
         THEN Returned("WalletNotFound", db)
    ELSE IF is_archived(ws[from_name]) \/ is_archived(ws[to_name])
         THEN Returned("WalletArchived", db)
    ELSE IF ws[from_name].currency # ws[to_name].currency
         THEN Returned("CurrencyMismatch", db)
    ELSE IF /\ ~ws[from_name].allow_negative /\ ~force
            /\ repo_compute_balance(db.transfers, from_name) < amount_cents
         THEN Returned("InsufficientFunds", db)
    ELSE Returned("Ok",
            save_transfer(db,
                [Transfer(new_id(db.transfers), from_name, to_name, amount_cents,
                          timestamp, category, NoId, origin)
                    EXCEPT !.description = description]))

\* self.description.as_deref().unwrap_or("(no description)")
DescriptionOrDefault(description) ==
    IF description = NoDescription THEN "(no description)" ELSE description

\* create_reversal that keeps the direction of the original
create_reversal_NotSwapped(ts, original, t) ==
    [Transfer(new_id(ts), original.from_wallet, original.to_wallet,
              original.amount_cents, t, NoCategory, original.id, NoOrigin)
        EXCEPT !.description = "Reversal of: " \o DescriptionOrDefault(original.description)]

\* Transfer::create_reversal: the wallets swapped, the whole amount, reverses
\* set; created at Utc::now()
create_reversal(ts, original, t) ==
    [Transfer(new_id(ts), original.to_wallet, original.from_wallet,
              original.amount_cents, t, NoCategory, original.id, NoOrigin)
        EXCEPT !.description = "Reversal of: " \o DescriptionOrDefault(original.description)]

\* Transfer::create_partial_reversal, once its assertion has passed
create_partial_reversal(ts, original, amount_cents, t) ==
    [Transfer(new_id(ts), original.to_wallet, original.from_wallet, amount_cents, t,
              NoCategory, original.id, NoOrigin)
        EXCEPT !.description =
                  "Partial reversal of: " \o DescriptionOrDefault(original.description)]

\* LedgerService::reverse_transfer up to the creation of the reversal, on
\* the rows ts it reads: the error it returns, or "Ok" to go on and save.
\* amount is None or Some(cents). "Panic" is the assertion of
\* create_partial_reversal failing: the call unwinds and nothing is saved.
reverse_transfer_validate(ws, ts, transfer_id, amount) ==
    IF ~has_transfer(ts, transfer_id) THEN "TransferNotFound"
    ELSE
    LET original == get_transfer(ts, transfer_id)
        reversal_amount == IF amount = None THEN original.amount_cents ELSE amount[1]
        already_reversed == get_total_reversed(ts, transfer_id)
        remaining == original.amount_cents - already_reversed
        is_partial == reversal_amount # original.amount_cents
    IN IF ~ws[original.from_wallet].exists \/ ~ws[original.to_wallet].exists
       THEN "WalletNotFound"
       ELSE IF reversal_amount > remaining THEN "ReversalExceedsOriginal"
       ELSE IF is_partial /\ ~(reversal_amount > 0 /\ reversal_amount <= original.amount_cents)
            THEN "Panic"
       ELSE "Ok"

\* the reversal reverse_transfer creates at instant t once validation passed
reverse_transfer_reversal(ts, transfer_id, amount, t) ==
    LET original == get_transfer(ts, transfer_id)
        reversal_amount == IF amount = None THEN original.amount_cents ELSE amount[1]
        is_partial == reversal_amount # original.amount_cents
        reversal == IF is_partial
                    THEN create_partial_reversal(ts, original, reversal_amount, t)
                    ELSE create_reversal(ts, original, t)
    IN [reversal EXCEPT !.category = original.category]

\* LedgerService::reverse_transfer at instant t, run without interruption
reverse_transfer(ws, db, t, transfer_id, amount) ==
    IF reverse_transfer_validate(ws, db.transfers, transfer_id, amount) # "Ok"
    THEN Returned(reverse_transfer_validate(ws, db.transfers, transfer_id, amount), db)
    ELSE Returned("Ok",
            save_transfer(db, reverse_transfer_reversal(db.transfers, transfer_id, amount, t)))

\* the tables a call works on
Db == [transfers |-> transfers, sequence_counter |-> sequence_counter]

\* the tables and the record of the call, after a call that returned r
Commit(op, r) ==
    /\ transfers' = r.transfers
    /\ sequence_counter' = r.sequence_counter
    /\ lastOp' = [op |-> op, res |-> r.res]

\* LedgerService::create_wallet
CreateWallet(name, wallet_type, currency) ==
    /\ IF wallets[name].exists
       THEN /\ lastOp' = [op |-> "create_wallet", res |-> "WalletAlreadyExists"]
            /\ UNCHANGED wallets
       ELSE /\ lastOp' = [op |-> "create_wallet", res |-> "Ok"]
            /\ wallets' = [wallets EXCEPT ![name] = Wallet(wallet_type, currency)]
    /\ UNCHANGED <<transfers, sequence_counter, schedules, now, procs, fn>>

\* LedgerService::archive_wallet (Repository::archive_wallet sets archived_at)
ArchiveWallet(name) ==
    /\ IF ~wallets[name].exists
       THEN /\ lastOp' = [op |-> "archive_wallet", res |-> "WalletNotFound"]
            /\ UNCHANGED wallets
       ELSE /\ lastOp' = [op |-> "archive_wallet", res |-> "Ok"]
            /\ wallets' = [wallets EXCEPT ![name].archived_at = now]
    /\ UNCHANGED <<transfers, sequence_counter, schedules, now, procs, fn>>

\* a call of LedgerService::record_transfer
RecordTransfer(from_name, to_name, amount_cents, timestamp, description, category, force) ==
    /\ \E r \in {record_transfer(wallets, Db, from_name, to_name, amount_cents, timestamp,
                                  description, category, force, NoOrigin)} :
          /\ Len(r.transfers) <= MaxTransfers
          /\ Commit("record_transfer", r)
    /\ UNCHANGED <<wallets, schedules, now, procs, fn>>

\* a call of LedgerService::reverse_transfer
ReverseTransfer(transfer_id, amount) ==
    /\ \E r \in {reverse_transfer(wallets, Db, now, transfer_id, amount)} :
          /\ Len(r.transfers) <= MaxTransfers
          /\ Commit("reverse_transfer", r)
    /\ UNCHANGED <<wallets, schedules, now, procs, fn>>

\* ----------------------------------------- the ledger service, call by call

ServiceInstant == Date(2024, 1, 1)
\* the wallets created: a checking account and an expense wallet
WalletKinds == [A |-> "Asset", B |-> "Expense"]
RecordAmounts == {0, 2}
ReverseAmounts == {None, Some(0), Some(1), Some(2)}

Init ==
    /\ wallets = EmptyWallets
    /\ transfers = <<>>
    /\ sequence_counter = 0
    /\ schedules = EmptySchedules
    /\ now = ServiceInstant
    /\ lastOp = NoOp
    /\ procs = NoProcs
    /\ fn = NoFn

Next ==
    \/ \E name \in WalletNames : CreateWallet(name, WalletKinds[name], "EUR")
    \/ \E name \in WalletNames : ArchiveWallet(name)
    \/ \E from_name \in WalletNames, to_name \in WalletNames,
          amount_cents \in RecordAmounts, force \in BOOLEAN :
          RecordTransfer(from_name, to_name, amount_cents, now, NoDescription, NoCategory,
                         force)
    \/ \E transfer_id \in 1..MaxTransfers, amount \in ReverseAmounts :
          ReverseTransfer(transfer_id, amount)

Spec == Init /\ [][Next]_vars

\* C2: after any sequence of reverse_transfer calls, full or partial, succeeding
\* or failing, the reversals persisted for a transfer never add up to more
\* than the transfer's amount.
C2_ReversalsWithinOriginal ==
    \A i \in DOMAIN transfers :
        ReversedOf(transfers, transfers[i].id) <= transfers[i].amount_cents

\* a transfer of 2 reversed in two parts of 1, after which a further reversal
\* was refused
C2_Witness ==
    /\ lastOp = [op |-> "reverse_transfer", res |-> "ReversalExceedsOriginal"]
    /\ \E i \in DOMAIN transfers :
          /\ transfers[i].amount_cents = 2
          /\ ReversedOf(transfers, transfers[i].id) = 2
          /\ Cardinality({j \in DOMAIN transfers : transfers[j].reverses = transfers[i].id}) = 2

\* the errors LedgerService::reverse_transfer returns as values of AppError
ReversalErrors == {"TransferNotFound", "WalletNotFound", "ReversalExceedsOriginal"}

\* C23: a partial reversal whose amount is not within 0 < amount <=
\* original.amount_cents (0 or a negative amount passed to reverse_transfer in
\* particular) fails with a typed validation error returned to the caller,
\* never with a panic, and persists nothing.
C23_BadReversalAmountIsTyped ==
    [][lastOp'.op = "reverse_transfer" =>
          \/ lastOp'.res = "Ok"
          \/ lastOp'.res \in ReversalErrors /\ transfers' = transfers]_vars

\* ------------------------------------------- the three balance functions

\* C25: compute_all_balances is equivalent to compute_balance: for every list
\* of transfers (a transfer from a wallet to itself, which record_transfer
\* accepts, included) and every wallet w of the list,
\* compute_all_balances(ts)[w] = compute_balance(w, ts), both are the sum of
\* the amounts received by w less the sum of the amounts sent by w, and both
\* agree with the SQL compute_balance of the repository.
C25_BalanceFunctionsAgree ==
    fn.op = "compute_all_balances" =>
        \A w \in DOMAIN fn.out :
            /\ fn.out[w] = compute_balance(w, fn.ts)
            /\ fn.out[w] = SumWhere(fn.ts, 1, "to_wallet", w)
                              - SumWhere(fn.ts, 1, "from_wallet", w)
            /\ fn.out[w] = repo_compute_balance(fn.ts, w)

\* ------------------------------------------------------------------ money

\* Cents is i64. The model keeps two's-complement arithmetic at a width of
\* CentsBits bits: 24, whose minimum, -8388608, ends in the digits 08 as the
\* minimum of i64, -9223372036854775808, does.
CentsBits == 24
CentsMax == 2^(CentsBits - 1) - 1
CentsMin == 0 - 2^(CentsBits - 1)
InCents(n) == CentsMin <= n /\ n <= CentsMax
WrapCents(n) == ((n - CentsMin) % 2^CentsBits) + CentsMin

\* the build profiles: overflow checks are on in debug and off in release
Builds == {"debug", "release"}

\* an arithmetic operation of exact result n: n when it fits; otherwise a panic
\* (None) with overflow checks, the wrapped value without
Checked(n, build) ==
    IF InCents(n) THEN Some(n)
    ELSE IF build = "debug" THEN None ELSE Some(WrapCents(n))

\* the / and % of Rust, which truncate towards zero
TruncDiv(a, b) == IF a >= 0 THEN a \div b ELSE 0 - ((0 - a) \div b)
TruncRem(a, b) == a - b * TruncDiv(a, b)

\* a string is the sequence of its characters
Digits == <<"0", "1", "2", "3", "4", "5", "6", "7", "8", "9">>
IsDigit(c) == \E d \in 1..10 : Digits[d] = c
DigitValue(c) == (CHOOSE d \in 1..10 : Digits[d] = c) - 1

\* the decimal digits of n >= 0
RECURSIVE ToDigits(_)
ToDigits(n) ==
    IF n < 10 THEN <<Digits[n + 1]>>
    ELSE Append(ToDigits(n \div 10), Digits[(n % 10) + 1])

\* "{}" of an i64
DisplayInt(n) == IF n < 0 THEN <<"-">> \o ToDigits(0 - n) ELSE ToDigits(n)

\* "{:02}" of an i64: padded with zeros to a width of two
DisplayPad2(n) ==
    Only({IF Len(text) < 2 THEN <<"0">> \o text ELSE text : text \in {DisplayInt(n)}})

\* format_cents; the outcome is the string, or the panic of cents.abs()
format_cents(cents, build) ==
    Only({IF abs_cents = None THEN [outcome |-> "panic", value |-> <<>>]
          ELSE [outcome |-> "value",
                value |-> (IF cents < 0 THEN <<"-">> ELSE <<>>)
                          \o DisplayInt(TruncDiv(abs_cents[1], 100)) \o <<".">>
                          \o DisplayPad2(TruncRem(abs_cents[1], 100))] :
          abs_cents \in {Checked(IF cents < 0 THEN 0 - cents ELSE cents, build)}})

\* str::trim_start and str::trim_end for the white space " ", and str::trim
RECURSIVE trim_start(_)
trim_start(text) ==
    IF text # <<>> /\ text[1] = " " THEN trim_start(Tail(text)) ELSE text
RECURSIVE trim_end(_)
trim_end(text) ==
    IF text # <<>> /\ text[Len(text)] = " "
    THEN trim_end(SubSeq(text, 1, Len(text) - 1)) ELSE text
trim(text) == trim_end(trim_start(text))

\* str::trim_start_matches(c): every leading c is removed
RECURSIVE trim_start_matches(_, _)
trim_start_matches(text, c) ==
    IF text # <<>> /\ text[1] = c THEN trim_start_matches(Tail(text), c) ELSE text

\* str::split(c) collected: the parts between the occurrences of c
RECURSIVE split(_, _)
split(text, c) ==
    IF \A i \in 1..Len(text) : text[i] # c THEN <<text>>
    ELSE Only({<<SubSeq(text, 1, i - 1)>> \o split(SubSeq(text, i + 1, Len(text)), c) :
               i \in {CHOOSE i \in 1..Len(text) :
                         text[i] = c /\ \A j \in 1..(i - 1) : text[j] # c}})

\* the value of a string of digits
RECURSIVE DigitsValue(_)
DigitsValue(text) ==
    IF text = <<>> THEN 0
    ELSE 10 * DigitsValue(SubSeq(text, 1, Len(text) - 1)) + DigitValue(text[Len(text)])

\* str::parse::<i64>: an optional sign + or -, then one digit or more, the
\* value within the range; None is the Err
parse_i64(text) ==
    Only({IF body = <<>> \/ \E i \in 1..Len(body) : ~IsDigit(body[i]) THEN None
          ELSE Only({IF InCents(n) THEN Some(n) ELSE None :
                     n \in {IF text[1] = "-" THEN 0 - DigitsValue(body)
                            ELSE DigitsValue(body)}}) :
          body \in {IF text # <<>> /\ text[1] \in {"+", "-"} THEN Tail(text) ELSE text}})

\* the outcomes of parse_cents
CentsOk(value) == [outcome |-> "Ok", value |-> value]
InvalidFormat == [outcome |-> "Err", value |-> 0]
CentsPanic == [outcome |-> "panic", value |-> 0]

\* parse_cents, the match on decimal_str.len(): the cents of the decimal part,
\* None being the Err
decimal_cents(decimal_str) ==
    IF Len(decimal_str) = 0 THEN Some(0)
    ELSE IF Len(decimal_str) = 1
         THEN Only({IF v = None THEN None ELSE Some(v[1] * 10) :
                    v \in {parse_i64(decimal_str)}})
    ELSE IF Len(decimal_str) = 2 THEN parse_i64(decimal_str)
    ELSE parse_i64(SubSeq(decimal_str, 1, 2))

\* parse_cents, its last line: Ok(if negative { -cents } else { cents }), cents
\* being None when the arithmetic before panicked
SignedCents(cents, negative, build) ==
    IF cents = None THEN CentsPanic
    ELSE IF ~negative THEN CentsOk(cents[1])
    ELSE Only({IF negated = None THEN CentsPanic ELSE CentsOk(negated[1]) :
               negated \in {Checked(0 - cents[1], build)}})

\* parse_cents, the arm of one part: whole units
parse_cents_Units(parts, negative, build) ==
    Only({IF units = None THEN InvalidFormat
          ELSE SignedCents(Checked(units[1] * 100, build), negative, build) :
          units \in {parse_i64(parts[1])}})

\* parse_cents, the arm of two parts: units and decimals
parse_cents_Decimal(parts, negative, build) ==
    Only({IF units = None THEN InvalidFormat
          ELSE Only({IF decimal = None THEN InvalidFormat
                     ELSE Only({IF hundreds = None THEN CentsPanic
                                ELSE SignedCents(Checked(hundreds[1] + decimal[1], build),
                                                 negative, build) :
                                hundreds \in {Checked(units[1] * 100, build)}}) :
                     decimal \in {decimal_cents(parts[2])}}) :
          units \in {IF parts[1] = <<>> THEN Some(0) ELSE parse_i64(parts[1])}})

\* parse_cents
parse_cents(input, build) ==
    Only({Only({IF Len(parts) = 1 THEN parse_cents_Units(parts, negative, build)
                ELSE IF Len(parts) = 2 THEN parse_cents_Decimal(parts, negative, build)
                ELSE InvalidFormat :
                parts \in {split(trim_start_matches(trimmed, "-"), ".")},
                negative \in {trimmed # <<>> /\ trimmed[1] = "-"}}) :
          trimmed \in {trim(input)}})

\* the amounts formatted and parsed back: the ends of the range, the amounts
\* about zero and about a whole unit
MoneyCents ==
    {CentsMin, CentsMin + 1, CentsMin + 8, CentsMax - 7, CentsMax - 1, CentsMax,
     0 - 5000, 0 - 1234, 1234, 5000, 10099}
        \cup ((0 - 120)..120)

\* the strings parsed: every string of at most MoneyLen of the characters
\* MoneyChars, and the strings MoneyExamples
MoneyLen == 4
MoneyChars == {"-", "+", ".", " ", "1", "5", "a"}
MoneyExamples ==
    {<<"1", "0", "0", ".", "9", "9", "9">>, <<"1", "0", "0", ".", "9", "9">>,
     <<"1", "2", ".", "5">>, <<"1", "2", ".", "3", "4">>, <<" ", "-", "1", ".", "5", " ">>,
     <<"1", ".", "2", "3", "a", "b", "c">>, <<"9", "9", "9", "9", "9">>,
     <<"-", "9", "9", "9", "9", "9">>, <<"8", "3", "8", "8", "6", ".", "0", "8">>,
     <<"8", "3", "8", "8", "6", ".", "0", "7">>,
     <<"-", "8", "3", "8", "8", "6", ".", "0", "8">>}
MoneyStrings == SeqsUpTo(MoneyChars, MoneyLen) \cup MoneyExamples

InitMoney ==
    /\ wallets = EmptyWallets
    /\ transfers = <<>>
    /\ sequence_counter = 0
    /\ schedules = EmptySchedules
    /\ now = ServiceInstant
    /\ lastOp = NoOp
    /\ procs = NoProcs
    /\ \/ \E x \in MoneyCents, build \in Builds :
             fn = [op |-> "input", kind |-> "cents", x |-> x, build |-> build]
       \/ \E input \in MoneyStrings, build \in Builds :
             fn = [op |-> "input", kind |-> "string", input |-> input, build |-> build]

\* parse_cents(&format_cents(x)); a panic of format_cents is the outcome
ApplyRoundTrip ==
    /\ fn.op = "input" /\ fn.kind = "cents"
    /\ \E text \in {format_cents(fn.x, fn.build)} :
          fn' = [op |-> "round_trip", x |-> fn.x, build |-> fn.build,
                 text |-> text.value,
                 out |-> IF text.outcome = "panic" THEN CentsPanic
                         ELSE parse_cents(text.value, fn.build)]
    /\ UNCHANGED <<wallets, transfers, sequence_counter, schedules, now, lastOp, procs>>

\* parse_cents(input)
ApplyParseCents ==
    /\ fn.op = "input" /\ fn.kind = "string"
    /\ fn' = [op |-> "parse_cents", input |-> fn.input, build |-> fn.build,
              out |-> parse_cents(fn.input, fn.build)]
    /\ UNCHANGED <<wallets, transfers, sequence_counter, schedules, now, lastOp, procs>>

NextMoney == ApplyRoundTrip \/ ApplyParseCents

SpecMoney == InitMoney /\ [][NextMoney]_vars

\* C27: parse_cents(format_cents(x)) == Ok(x) for every x of Cents: the
\* negative amounts of zero units, the minimum and the maximum included.
C27_MoneyRoundTrip ==
    fn.op = "round_trip" => fn.out = CentsOk(fn.x)

\* a decimal string: an optional '-', then digits, with at most one point,
\* which has a digit after it; without a point, a digit at least
AllDigits(text) == \A i \in 1..Len(text) : IsDigit(text[i])
Unsigned(text) == IF text # <<>> /\ text[1] = "-" THEN Tail(text) ELSE text
PointsOf(text) == {i \in 1..Len(text) : text[i] = "."}
IntegerPart(text) ==
    IF PointsOf(text) = {} THEN text ELSE SubSeq(text, 1, Only(PointsOf(text)) - 1)
DecimalPart(text) ==
    IF PointsOf(text) = {} THEN <<>>
    ELSE SubSeq(text, Only(PointsOf(text)) + 1, Len(text))
WellFormedDecimal(text) ==
    /\ Cardinality(PointsOf(Unsigned(text))) <= 1
    /\ AllDigits(IntegerPart(Unsigned(text)))
    /\ AllDigits(DecimalPart(Unsigned(text)))
    /\ IF PointsOf(Unsigned(text)) = {} THEN IntegerPart(Unsigned(text)) # <<>>
       ELSE DecimalPart(Unsigned(text)) # <<>>

\* the cents a decimal string stands for: the units by 100, one decimal digit
\* by 10, two as they are, the digits after the second dropped; negated after
\* a leading '-'
DecimalCents(text) ==
    LET units == DigitsValue(IntegerPart(Unsigned(text)))
        decimals == DecimalPart(Unsigned(text))
        cents == units * 100
                 + (IF Len(decimals) = 0 THEN 0
                    ELSE IF Len(decimals) = 1 THEN DigitValue(decimals[1]) * 10
                    ELSE DigitValue(decimals[1]) * 10 + DigitValue(decimals[2]))
    IN  IF text[1] = "-" THEN 0 - cents ELSE cents

\* C28: parse_cents on a well-formed decimal string gives Ok: units x 100
\* without a point; one decimal digit scaled x 10; two digits verbatim; more
\* than two truncated to the first two ("100.999" -> 10099); an empty integer
\* part counts as 0 (".50" -> 50); a leading '-' negates the whole result.
C28_ParseOfWellFormed ==
    (fn.op = "parse_cents" /\ WellFormedDecimal(fn.input))
        => fn.out = CentsOk(DecimalCents(fn.input))

\* C29: parse_cents returns Err(InvalidFormat) for every input that, after
\* trimming white space and removing one leading '-', holds a character that
\* is neither a digit nor a point, wherever it stands, and for every input
\* of more than one point.
C29_NonDigitIsInvalidFormat ==
    (fn.op = "parse_cents"
        /\ \/ \E i \in 1..Len(Unsigned(trim(fn.input))) :
                 /\ ~IsDigit(Unsigned(trim(fn.input))[i])
                 /\ Unsigned(trim(fn.input))[i] # "."
           \/ Cardinality(PointsOf(fn.input)) > 1)
        => fn.out = InvalidFormat

\* ---------------------------------------------------------- budget periods

PeriodTypes == {"Weekly", "Monthly", "Yearly"}

\* the calendar date of an instant: now.date_naive(), with now.year(),
\* now.month() and now.day() its fields
date_naive(t) == CivilFromDays(DayOf(t))

\* NaiveDate::with_year, with_month and with_day: None when the year, month
\* and day asked for are no date of the calendar
with_year(date, year) ==
    IF date.day <= DaysInMonth(year, date.month)
    THEN Some([date EXCEPT !.year = year]) ELSE None
with_month(date, month) ==
    IF month \in 1..12 /\ date.day <= DaysInMonth(date.year, month)
    THEN Some([date EXCEPT !.month = month]) ELSE None
with_day(date, day) ==
    IF day \in 1..DaysInMonth(date.year, date.month)
    THEN Some([date EXCEPT !.day = day]) ELSE None

\* one step more of a chain of with_ calls: step of the date so far, or None
\* once a step has given None
AndThen(date, step(_)) == IF date = None THEN None ELSE step(date[1])

\* now.weekday().num_days_from_monday(); 1970-01-01 is a Thursday
num_days_from_monday(t) == (DayOf(t) + 3) % 7

\* date.and_hms_opt(0, 0, 0) of a calendar date
Midnight(date) == Date(date.year, date.month, date.day)

\* the pair current_period returns, and the panic of an unwrap() of None
Period(start, end) == [outcome |-> "value", start |-> start, end |-> end]
PeriodPanic == [outcome |-> "panic", start |-> NoDate, end |-> NoDate]

\* the pair of two dates at midnight, each None when an unwrap() in its chain
\* met None
PeriodOf(start, end) ==
    IF start = None \/ end = None THEN PeriodPanic
    ELSE Period(Midnight(start[1]), Midnight(end[1]))

\* PeriodType::current_period, the arm Weekly
current_period_Weekly(t) ==
    Only({Period(start, start + Days(7)) :
          start \in {AndHms(DayOf(t), 0) - Days(num_days_from_monday(t))}})

\* PeriodType::current_period, the arm Monthly
current_period_Monthly(t) ==
    Only({PeriodOf(with_day(date, 1),
                   IF date.month = 12
                   THEN AndThen(AndThen(with_day(date, 1),
                                        LAMBDA d : with_year(d, date.year + 1)),
                                LAMBDA d : with_month(d, 1))
                   ELSE AndThen(with_day(date, 1),
                                LAMBDA d : with_month(d, date.month + 1))) :
          date \in {date_naive(t)}})

\* PeriodType::current_period, the arm Yearly
current_period_Yearly(t) ==
    Only({PeriodOf(AndThen(with_month(date, 1), LAMBDA d : with_day(d, 1)),
                   AndThen(AndThen(with_year(date, date.year + 1),
                                   LAMBDA d : with_month(d, 1)),
                           LAMBDA d : with_day(d, 1))) :
          date \in {date_naive(t)}})

\* PeriodType::current_period(now)
current_period(period_type, t) ==
    IF period_type = "Weekly" THEN current_period_Weekly(t)
    ELSE IF period_type = "Monthly" THEN current_period_Monthly(t)
    ELSE current_period_Yearly(t)

InitPeriod ==
    /\ wallets = EmptyWallets
    /\ transfers = <<>>
    /\ sequence_counter = 0
    /\ schedules = EmptySchedules
    /\ lastOp = NoOp
    /\ procs = NoProcs
    /\ \E period_type \in PeriodTypes, t \in CalendarInstants :
          /\ now = t
          /\ fn = [op |-> "input", period_type |-> period_type]

\* period_type.current_period(now)
ApplyCurrentPeriod ==
    /\ fn.op = "input"
    /\ fn' = [op |-> "current_period", period_type |-> fn.period_type,
              out |-> current_period(fn.period_type, now)]
    /\ UNCHANGED <<wallets, transfers, sequence_counter, schedules, now, lastOp, procs>>

NextPeriod == ApplyCurrentPeriod

SpecPeriod == InitPeriod /\ [][NextPeriod]_vars

\* the first instant of the month of an instant, and of the month after
MonthStart(t) == Date(date_naive(t).year, date_naive(t).month, 1)
MonthEnd(t) ==
    IF date_naive(t).month = 12 THEN Date(date_naive(t).year + 1, 1, 1)
    ELSE Date(date_naive(t).year, date_naive(t).month + 1, 1)

\* C30: for every period type and instant now, current_period returns a pair
\* (start, end) with start <= now < end: Weekly from the Monday 00:00 on or
\* before now to 7 days later; Monthly from the first of now's month to the
\* first of the month after (of January of the next year for December);
\* Yearly from January 1 of now's year to January 1 of the year after.
C30_CurrentPeriodHoldsNow ==
    fn.op = "current_period" =>
        /\ fn.out.outcome = "value"
        /\ fn.out.start <= now /\ now < fn.out.end
        /\ fn.period_type = "Weekly" =>
              /\ fn.out.start % TicksPerDay = 0
              /\ num_days_from_monday(fn.out.start) = 0
              /\ fn.out.end = fn.out.start + Days(7)
        /\ fn.period_type = "Monthly" =>
              fn.out.start = MonthStart(now) /\ fn.out.end = MonthEnd(now)
        /\ fn.period_type = "Yearly" =>
              /\ fn.out.start = Date(date_naive(now).year, 1, 1)
              /\ fn.out.end = Date(date_naive(now).year + 1, 1, 1)

\* -------------------------------------- the constructors of a transfer

\* Transfer::new with its assertion: the transfer, or the panic of assert!
Transfer_new(id, from_wallet, to_wallet, amount_cents, timestamp) ==
    IF ~(amount_cents > 0)
    THEN [outcome |-> "panic", message |-> "Transfer amount must be positive"]
    ELSE [outcome |-> "value",
          value |-> Transfer(id, from_wallet, to_wallet, amount_cents, timestamp,
                             NoCategory, NoId, NoOrigin)]

NewAmounts == {0 - 2, 0 - 1, 0, 1, 2, 5000}
NewInstants == {Date(2024, 1, 1), Date(2024, 1, 15), Date(2024, 2, 20)}

\* stored transfers between any two wallets, the same wallet twice included
StoredShapes ==
    {Transfer(1, f, t, a, ServiceInstant, NoCategory, NoId, NoOrigin) :
        f \in WalletNames, t \in WalletNames, a \in {1, 5000}}

InitTransfer ==
    /\ wallets = EmptyWallets
    /\ transfers = <<>>
    /\ sequence_counter = 0
    /\ schedules = EmptySchedules
    /\ now = ServiceInstant
    /\ lastOp = NoOp
    /\ procs = NoProcs
    /\ \/ \E from_wallet \in WalletNames, to_wallet \in WalletNames,
             amount_cents \in NewAmounts, timestamp \in NewInstants :
             fn = [op |-> "input", kind |-> "new", from_wallet |-> from_wallet,
                   to_wallet |-> to_wallet, amount_cents |-> amount_cents,
                   timestamp |-> timestamp]
       \/ \E l \in SeqsUpTo(StoredShapes, MaxLen), original \in StoredShapes :
             fn = [op |-> "input", kind |-> "reversal", ts |-> WithIds(l),
                   original |-> original]

\* Transfer::new(from_wallet, to_wallet, amount_cents, timestamp)
ApplyTransferNew ==
    /\ fn.op = "input" /\ fn.kind = "new"
    /\ fn' = [op |-> "Transfer::new", amount_cents |-> fn.amount_cents,
              out |-> Transfer_new(1, fn.from_wallet, fn.to_wallet, fn.amount_cents,
                                   fn.timestamp)]
    /\ UNCHANGED <<wallets, transfers, sequence_counter, schedules, now, lastOp, procs>>

\* original.create_reversal() at the instant now, the original being stored
\* after the transfers ts
ApplyCreateReversal ==
    /\ fn.op = "input" /\ fn.kind = "reversal"
    /\ fn' = [op |-> "create_reversal", ts |-> fn.ts, original |-> fn.original,
              out |-> create_reversal(Append(fn.ts, fn.original), fn.original, now)]
    /\ UNCHANGED <<wallets, transfers, sequence_counter, schedules, now, lastOp, procs>>

NextTransfer == ApplyTransferNew \/ ApplyCreateReversal

SpecTransfer == InitTransfer /\ [][NextTransfer]_vars

\* C22: constructing a transfer with amount_cents <= 0 is a recoverable
\* validation failure: Transfer::new reports an error value to its caller,
\* does not abort the program, and constructs no transfer.
C22_NonPositiveAmountIsAnError ==
    (fn.op = "Transfer::new" /\ fn.amount_cents <= 0) => fn.out.outcome = "error"

\* the balance of wallet w in the map compute_all_balances returns (a wallet
\* without an entry has no transfer: 0)
BalanceIn(balances, w) == IF w \in DOMAIN balances THEN balances[w] ELSE 0

Callers == {1, 2}
\* the transfer both callers reverse, and the amounts they ask for
ConcOriginal == 10000
ConcAmounts == {None, Some(4000), Some(6000)}
Idle == [pc |-> "idle"]

InitConc ==
    /\ wallets = [name \in WalletNames |-> Wallet(WalletKinds[name], "EUR")]
    /\ transfers = save_transfer([transfers |-> <<>>, sequence_counter |-> 0],
                                 Transfer(1, "B", "A", ConcOriginal, ServiceInstant,
                                          NoCategory, NoId, NoOrigin)).transfers
    /\ sequence_counter = 1
    /\ schedules = EmptySchedules
    /\ now = ServiceInstant
    /\ lastOp = NoOp
    /\ procs = [p \in Callers |-> Idle]
    /\ fn = NoFn

\* reverse_transfer is called: get_transfer and the two get_wallet
ConcBegin(p, transfer_id, amount) ==
    /\ procs[p].pc \in {"idle", "done"}
    /\ Len(transfers) + Cardinality({q \in Callers : procs[q].pc \notin {"idle", "done"}})
          < MaxTransfers
    /\ procs' = [procs EXCEPT ![p] =
          IF ~has_transfer(transfers, transfer_id)
          THEN [pc |-> "done", transfer_id |-> transfer_id, amount |-> amount,
                res |-> "TransferNotFound"]
          ELSE [pc |-> "get_total_reversed", transfer_id |-> transfer_id,
                amount |-> amount]]
    /\ UNCHANGED <<wallets, transfers, sequence_counter, schedules, now, lastOp, fn>>

\* get_total_reversed is read, the amount checked and the reversal created
ConcValidate(p) ==
    /\ procs[p].pc = "get_total_reversed"
    /\ \E res \in {reverse_transfer_validate(wallets, transfers, procs[p].transfer_id,
                                             procs[p].amount)} :
          procs' = [procs EXCEPT ![p] =
             IF res # "Ok"
             THEN [pc |-> "done", transfer_id |-> procs[p].transfer_id,
                   amount |-> procs[p].amount, res |-> res]
             ELSE [pc |-> "next_sequence", transfer_id |-> procs[p].transfer_id,
                   amount |-> procs[p].amount,
                   reversal |-> [reverse_transfer_reversal(transfers, procs[p].transfer_id,
                                                           procs[p].amount, now)
                                    EXCEPT !.id = NoId]]]
    /\ UNCHANGED <<wallets, transfers, sequence_counter, schedules, now, lastOp, fn>>

\* save_transfer, first statement: next_sequence
ConcNextSequence(p) ==
    /\ procs[p].pc = "next_sequence"
    /\ sequence_counter' = next_sequence(sequence_counter)
    /\ procs' = [procs EXCEPT ![p] =
          [pc |-> "insert", transfer_id |-> procs[p].transfer_id,
           amount |-> procs[p].amount,
           reversal |-> [procs[p].reversal EXCEPT !.sequence = sequence_counter']]]
    /\ UNCHANGED <<wallets, transfers, schedules, now, lastOp, fn>>

\* save_transfer, second statement: the INSERT; the call returns Ok
ConcInsert(p) ==
    /\ procs[p].pc = "insert"
    /\ transfers' = Append(transfers, [procs[p].reversal EXCEPT !.id = new_id(transfers)])
    /\ procs' = [procs EXCEPT ![p] =
          [pc |-> "done", transfer_id |-> procs[p].transfer_id,
           amount |-> procs[p].amount, res |-> "Ok"]]
    /\ UNCHANGED <<wallets, sequence_counter, schedules, now, lastOp, fn>>

NextConc ==
    \/ \E p \in Callers, transfer_id \in 1..2, amount \in ConcAmounts :
          ConcBegin(p, transfer_id, amount)
    \/ \E p \in Callers : ConcValidate(p)
    \/ \E p \in Callers : ConcNextSequence(p)
    \/ \E p \in Callers : ConcInsert(p)

SpecConc == InitConc /\ [][NextConc]_vars

\* C4: two reverse_transfer calls on the same original whose reads and saves
\* interleave do not both commit when their amounts, added to the earlier
\* reversals, exceed the original amount.
C4_NoJointOvershoot ==
    \A p \in Callers, q \in Callers :
        (/\ p # q
         /\ procs[p].pc = "done" /\ procs[p].res = "Ok"
         /\ procs[q].pc = "done" /\ procs[q].res = "Ok"
         /\ procs[p].transfer_id = procs[q].transfer_id)
        => get_total_reversed(transfers, procs[p].transfer_id)
              <= get_transfer(transfers, procs[p].transfer_id).amount_cents

\* -------------------------------------- save_transfer, calls interleaved

\* Repository::get_integrity_stats: has_sequence_gaps of the table ts
has_sequence_gaps(ts) ==
    IF ts = <<>> THEN FALSE
    ELSE LET seqs == {ts[i].sequence : i \in 1..Len(ts)}
             min_seq == CHOOSE s \in seqs : \A x \in seqs : s <= x
             max_seq == CHOOSE s \in seqs : \A x \in seqs : x <= s
         IN  max_seq - min_seq + 1 # Len(ts)

InitSave ==
    /\ wallets = [name \in WalletNames |-> Wallet(WalletKinds[name], "EUR")]
    /\ transfers = <<>>
    /\ sequence_counter = 0
    /\ schedules = EmptySchedules
    /\ now = ServiceInstant
    /\ lastOp = NoOp
    /\ procs = [p \in Callers |-> Idle]
    /\ fn = NoFn

\* save_transfer is called by p, first statement: next_sequence
SaveNextSequence(p, amount_cents) ==
    /\ procs[p].pc = "idle"
    /\ sequence_counter < MaxScheduled
    /\ sequence_counter' = next_sequence(sequence_counter)
    /\ procs' = [procs EXCEPT ![p] =
          [pc |-> "insert",
           transfer |-> [Transfer(NoId, "B", "A", amount_cents, now, NoCategory, NoId,
                                  NoOrigin) EXCEPT !.sequence = sequence_counter']]]
    /\ UNCHANGED <<wallets, transfers, schedules, now, lastOp, fn>>

\* save_transfer, second statement: the INSERT succeeds and the call returns Ok
SaveInsert(p) ==
    /\ procs[p].pc = "insert"
    /\ transfers' = Append(transfers, [procs[p].transfer EXCEPT !.id = new_id(transfers)])
    /\ procs' = [procs EXCEPT ![p] = Idle]
    /\ lastOp' = [op |-> "save_transfer", res |-> "Ok"]
    /\ UNCHANGED <<wallets, sequence_counter, schedules, now, fn>>

\* save_transfer, second statement: the INSERT fails and the call returns the
\* error; the UPDATE of next_sequence is not undone
SaveInsertFails(p) ==
    /\ procs[p].pc = "insert"
    /\ procs' = [procs EXCEPT ![p] = Idle]
    /\ lastOp' = [op |-> "save_transfer", res |-> "Failed to save transfer"]
    /\ UNCHANGED <<wallets, transfers, sequence_counter, schedules, now, fn>>

NextSave ==
    \/ \E p \in Callers, amount_cents \in 1..2 : SaveNextSequence(p, amount_cents)
    \/ \E p \in Callers : SaveInsert(p)
    \/ \E p \in Callers : SaveInsertFails(p)

SpecSave == InitSave /\ [][NextSave]_vars

\* C18: with save_transfer called concurrently, and with INSERTs that fail
\* after the counter was incremented, the sequence numbers of the stored
\* transfers never collide and never skip: once no call is in progress they
\* form a run without gaps.
C18_SequencesGapFree ==
    /\ \A i \in 1..Len(transfers), j \in 1..Len(transfers) :
           i # j => transfers[i].sequence # transfers[j].sequence
    /\ (\A p \in Callers : procs[p].pc = "idle") => ~has_sequence_gaps(transfers)

\* ------------------------------------------------- scheduled transfers

\* what a call on schedules returns and the tables it leaves; exec_date is the
\* date the call applied (NoDate when it applied none)
SchedReturned(res, db, scheds, exec_date) ==
    [res |-> res, transfers |-> db.transfers, sequence_counter |-> db.sequence_counter,
     schedules |-> scheds, exec_date |-> exec_date]

\* update_last_executed that keeps a date already stored
update_last_executed_KeepFirst(scheds, name, timestamp) ==
    IF scheds[name].last_executed_at # NoDate THEN scheds
    ELSE [scheds EXCEPT ![name].last_executed_at = timestamp]

\* Repository::update_last_executed
update_last_executed(scheds, name, timestamp) ==
    [scheds EXCEPT ![name].last_executed_at = timestamp]

\* Repository::update_scheduled_transfer_status
update_scheduled_transfer_status(scheds, name, status) ==
    [scheds EXCEPT ![name].status = status]

\* the execution date execute_scheduled_transfer settles on at instant t
ExecDate(scheduled, t, execution_date, force) ==
    IF execution_date # None THEN execution_date[1]
    ELSE IF force THEN t
    ELSE Only({IF next = NoDate THEN t ELSE next :
               next \in {next_execution_date(scheduled, t)}})

\* ExecuteFinish that completes the schedule only past the end date
ExecuteFinish_PastEnd(scheds, name, exec_date) ==
    IF scheds[name].end_date # NoDate /\ exec_date > scheds[name].end_date
    THEN update_scheduled_transfer_status(update_last_executed(scheds, name, exec_date),
                                          name, "Completed")
    ELSE update_last_executed(scheds, name, exec_date)

\* execute_scheduled_transfer after the transfer was recorded: last_executed_at
\* is set, and the status when the end date is reached
ExecuteFinish(scheds, name, exec_date) ==
    IF scheds[name].end_date # NoDate /\ exec_date >= scheds[name].end_date
    THEN update_scheduled_transfer_status(update_last_executed(scheds, name, exec_date),
                                          name, "Completed")
    ELSE update_last_executed(scheds, name, exec_date)

\* execute_scheduled_transfer without the test for a Completed schedule
execute_scheduled_transfer_NoCompletedTest(ws, db, scheds, t, name, execution_date, force) ==
    IF ~scheds[name].exists THEN SchedReturned("ScheduledTransferNotFound", db, scheds, NoDate)
    ELSE IF scheds[name].status = "Paused" /\ ~force
         THEN SchedReturned("ScheduleNotDue", db, scheds, NoDate)
    ELSE IF execution_date = None /\ ~force /\ ~is_due(scheds[name], t)
         THEN SchedReturned("ScheduleNotDue", db, scheds, NoDate)
    ELSE Only({
            IF r.res # "Ok" THEN SchedReturned(r.res, db, scheds, NoDate)
            ELSE SchedReturned("Ok", r, ExecuteFinish(scheds, name, exec_date), exec_date) :
         <<exec_date, r>> \in
            {<<d, record_transfer(ws, db, scheds[name].from_wallet, scheds[name].to_wallet,
                                  scheds[name].amount_cents, d, scheds[name].description,
                                  scheds[name].category, force, name)>> :
                d \in {ExecDate(scheds[name], t, execution_date, force)}}})

\* LedgerService::execute_scheduled_transfer at instant t; execution_date is
\* None or Some(date)
execute_scheduled_transfer(ws, db, scheds, t, name, execution_date, force) ==
    IF ~scheds[name].exists THEN SchedReturned("ScheduledTransferNotFound", db, scheds, NoDate)
    ELSE IF scheds[name].status = "Completed"
         THEN SchedReturned("ScheduleCompleted", db, scheds, NoDate)
    ELSE IF scheds[name].status = "Paused" /\ ~force
         THEN SchedReturned("ScheduleNotDue", db, scheds, NoDate)
    ELSE IF execution_date = None /\ ~force /\ ~is_due(scheds[name], t)
         THEN SchedReturned("ScheduleNotDue", db, scheds, NoDate)
    ELSE IF ~ws[scheds[name].from_wallet].exists \/ ~ws[scheds[name].to_wallet].exists
         THEN SchedReturned("WalletNotFound", db, scheds, NoDate)
    ELSE Only({
            IF r.res # "Ok" THEN SchedReturned(r.res, db, scheds, NoDate)
            ELSE SchedReturned("Ok", r, ExecuteFinish(scheds, name, exec_date), exec_date) :
         <<exec_date, r>> \in
            {<<d, record_transfer(ws, db, scheds[name].from_wallet, scheds[name].to_wallet,
                                  scheds[name].amount_cents, d, scheds[name].description,
                                  scheds[name].category, force, name)>> :
                d \in {ExecDate(scheds[name], t, execution_date, force)}}})

\* the inner loop of execute_due_scheduled_transfers: the dates of one schedule
\* executed in order from the i-th on; the first error ends the call
RECURSIVE ExecuteDates(_, _, _, _, _, _)
ExecuteDates(ws, st, t, name, pending, i) ==
    IF i > Len(pending) THEN st
    ELSE Only({IF r.res # "Ok" THEN r ELSE ExecuteDates(ws, r, t, name, pending, i + 1) :
               r \in {execute_scheduled_transfer(ws, st, st.schedules, t, name,
                                                 Some(pending[i]), FALSE)}})

\* list_scheduled_transfers(false): the active schedules, ORDER BY name
ScheduleOrder == <<"S">>

\* the outer loop of execute_due_scheduled_transfers over the schedules listed
\* (the rows as they were read when the call started)
RECURSIVE ExecuteSchedules(_, _, _, _, _, _)
ExecuteSchedules(ws, st, listed, t, up_to, k) ==
    IF k > Len(ScheduleOrder) THEN st
    ELSE IF ~listed[ScheduleOrder[k]].exists \/ listed[ScheduleOrder[k]].status # "Active"
         THEN ExecuteSchedules(ws, st, listed, t, up_to, k + 1)
    ELSE Only({IF r.res # "Ok" THEN r ELSE ExecuteSchedules(ws, r, listed, t, up_to, k + 1) :
               r \in {ExecuteDates(ws, st, t, ScheduleOrder[k], pending, 1) :
                         pending \in {pending_executions(listed[ScheduleOrder[k]], up_to)}}})

\* LedgerService::execute_due_scheduled_transfers at instant t
execute_due_scheduled_transfers(ws, db, scheds, t, up_to) ==
    ExecuteSchedules(ws, SchedReturned("Ok", db, scheds, NoDate), scheds, t, up_to, 1)

\* LedgerService::create_scheduled_transfer
CreateScheduledTransfer(name, from_name, to_name, amount_cents, pattern, start_date, end_date, description, category) ==
    /\ \E res \in {IF schedules[name].exists THEN "ScheduledTransferAlreadyExists"
                   ELSE IF amount_cents <= 0 THEN "InvalidAmount"
                   ELSE IF ~wallets[from_name].exists \/ ~wallets[to_name].exists
                        THEN "WalletNotFound"
                   ELSE IF is_archived(wallets[from_name]) \/ is_archived(wallets[to_name])
                        THEN "WalletArchived"
                   ELSE IF wallets[from_name].currency # wallets[to_name].currency
                        THEN "CurrencyMismatch"
                   ELSE "Ok"} :
          /\ lastOp' = [op |-> "create_scheduled_transfer", res |-> res]
          /\ schedules' =
                IF res # "Ok" THEN schedules
                ELSE [schedules EXCEPT ![name] =
                        [Schedule(from_name, to_name, amount_cents, pattern, start_date,
                                  end_date, category) EXCEPT !.description = description]]
    /\ UNCHANGED <<wallets, transfers, sequence_counter, now, procs, fn>>

\* LedgerService::pause_scheduled_transfer
PauseScheduledTransfer(name) ==
    /\ IF ~schedules[name].exists
       THEN /\ lastOp' = [op |-> "pause_scheduled_transfer", res |-> "ScheduledTransferNotFound"]
            /\ UNCHANGED schedules
       ELSE /\ lastOp' = [op |-> "pause_scheduled_transfer", res |-> "Ok"]
            /\ schedules' = update_scheduled_transfer_status(schedules, name, "Paused")
    /\ UNCHANGED <<wallets, transfers, sequence_counter, now, procs, fn>>

\* LedgerService::resume_scheduled_transfer
ResumeScheduledTransfer(name) ==
    /\ IF ~schedules[name].exists
       THEN /\ lastOp' = [op |-> "resume_scheduled_transfer", res |-> "ScheduledTransferNotFound"]
            /\ UNCHANGED schedules
       ELSE /\ lastOp' = [op |-> "resume_scheduled_transfer", res |-> "Ok"]
            /\ schedules' = update_scheduled_transfer_status(schedules, name, "Active")
    /\ UNCHANGED <<wallets, transfers, sequence_counter, now, procs, fn>>

\* a call of LedgerService::execute_scheduled_transfer
ExecuteScheduledTransfer(name, execution_date, force) ==
    /\ \E r \in {execute_scheduled_transfer(wallets, Db, schedules, now, name,
                                            execution_date, force)} :
          /\ Len(r.transfers) <= MaxScheduled
          /\ transfers' = r.transfers
          /\ sequence_counter' = r.sequence_counter
          /\ schedules' = r.schedules
          /\ lastOp' = [op |-> "execute_scheduled_transfer", res |-> r.res, name |-> name,
                        exec_date |-> r.exec_date, force |-> force]
    /\ UNCHANGED <<wallets, now, procs, fn>>

\* a call of LedgerService::execute_due_scheduled_transfers. The record of the
\* call keeps how many transfers it persisted and, when the call before it was
\* the same call and succeeded, how many that one persisted (NoDate otherwise).
ExecuteDueScheduledTransfers(up_to) ==
    /\ \E r \in {execute_due_scheduled_transfers(wallets, Db, schedules, now, up_to)} :
          /\ Len(r.transfers) <= MaxScheduled
          /\ transfers' = r.transfers
          /\ sequence_counter' = r.sequence_counter
          /\ schedules' = r.schedules
          /\ lastOp' = [op |-> "execute_due_scheduled_transfers", res |-> r.res,
                        up_to |-> up_to,
                        persisted |-> Len(r.transfers) - Len(transfers),
                        prior |-> IF /\ lastOp.op = "execute_due_scheduled_transfers"
                                     /\ lastOp.res = "Ok"
                                     /\ lastOp.up_to = up_to
                                  THEN lastOp.persisted ELSE NoDate]
    /\ UNCHANGED <<wallets, now, procs, fn>>

\* time passes
AdvanceClock(t) ==
    /\ t > now
    /\ now' = t
    /\ lastOp' = [op |-> "clock", res |-> "Ok"]
    /\ UNCHANGED <<wallets, transfers, sequence_counter, schedules, procs, fn>>

\* --------------------------------- the schedule service, call by call

\* the checking account A holds SchedFunding, received from B
SchedFunding == 2
SchedAmount == 1
SchedStart == Date(2024, 1, 15)
SchedPatterns == {"Monthly"}
SchedEnds == {NoDate, Date(2024, 3, 15)}
\* the instants the clock shows, also used as up_to
SchedInstants == {Date(2024, 1, 15), Date(2024, 2, 20), Date(2024, 4, 1)}
\* the execution dates given to execute_scheduled_transfer
SchedDates == {None, Some(Date(2024, 1, 15)), Some(Date(2024, 2, 15)), Some(Date(2024, 3, 15))}

InitSched ==
    /\ wallets = [name \in WalletNames |-> Wallet(WalletKinds[name], "EUR")]
    /\ transfers = save_transfer([transfers |-> <<>>, sequence_counter |-> 0],
                                 Transfer(1, "B", "A", SchedFunding, Date(2024, 1, 1),
                                          NoCategory, NoId, NoOrigin)).transfers
    /\ sequence_counter = 1
    /\ schedules = EmptySchedules
    /\ now = Date(2024, 1, 1)
    /\ lastOp = NoOp
    /\ procs = NoProcs
    /\ fn = NoFn

NextSched ==
    \/ \E name \in ScheduleNames, from_name \in WalletNames, pattern \in SchedPatterns,
          end_date \in SchedEnds :
          CreateScheduledTransfer(name, from_name, CHOOSE w \in WalletNames : w # from_name,
                                  SchedAmount, pattern, SchedStart, end_date, "Rent", "rent")
    \/ \E name \in ScheduleNames : PauseScheduledTransfer(name)
    \/ \E name \in ScheduleNames : ResumeScheduledTransfer(name)
    \/ \E name \in ScheduleNames, execution_date \in SchedDates, force \in BOOLEAN :
          ExecuteScheduledTransfer(name, execution_date, force)
    \/ \E up_to \in SchedInstants : ExecuteDueScheduledTransfers(up_to)
    \/ \E t \in SchedInstants : AdvanceClock(t)

SpecSched == InitSched /\ [][NextSched]_vars

\* C36: a schedule's last_executed_at never moves backwards: across any
\* sequence of execute_scheduled_transfer and execute_due_scheduled_transfers
\* calls, with any explicit date and any force flag, each successful execution
\* sets last_executed_at to a value greater than or equal to the one before.
C36_LastExecutedNeverMovesBack ==
    [][\A name \in ScheduleNames :
          (schedules[name].exists /\ schedules[name].last_executed_at # NoDate)
              => /\ schedules'[name].exists
                 /\ schedules'[name].last_executed_at >= schedules[name].last_executed_at]_vars

\* the transfers persisted for the schedule name with the date d
ExecutionsOf(name, d) ==
    {i \in DOMAIN transfers : transfers[i].origin = name /\ transfers[i].timestamp = d}

\* C5: executing the same schedule for the same execution date twice, with or
\* without force, persists at most one transfer for that schedule and date.
C5_IdempotentPerDate ==
    \A name \in ScheduleNames : \A i \in DOMAIN transfers :
        Cardinality(ExecutionsOf(name, transfers[i].timestamp)) <= 1

\* the transfers a step persisted, and those of them made for the schedule name
Persisted == SubSeq(transfers', Len(transfers) + 1, Len(transfers'))
PersistedFor(name) == SelectSeq(Persisted, LAMBDA x : x.origin = name)

\* C6: for an Active schedule whose transfers all succeed,
\* execute_due_scheduled_transfers(up_to) persists exactly one transfer per date
\* of pending_executions(up_to), in that order, each with the schedule's amount,
\* description and category and the date as timestamp, and leaves
\* last_executed_at at the last date; the same call made again at once
\* persists nothing more.
C6_ExecuteDueOncePerDate ==
    [][(lastOp'.op = "execute_due_scheduled_transfers" /\ lastOp'.res = "Ok")
       => /\ SubSeq(transfers', 1, Len(transfers)) = transfers
          /\ \A name \in ScheduleNames :
                (schedules[name].exists /\ schedules[name].status = "Active")
                => \E pending \in {pending_executions(schedules[name], lastOp'.up_to)} :
                      /\ Len(PersistedFor(name)) = Len(pending)
                      /\ \A k \in 1..Len(pending) :
                            /\ PersistedFor(name)[k].timestamp = pending[k]
                            /\ PersistedFor(name)[k].amount_cents = schedules[name].amount_cents
                            /\ PersistedFor(name)[k].description = schedules[name].description
                            /\ PersistedFor(name)[k].category = schedules[name].category
                            /\ PersistedFor(name)[k].from_wallet = schedules[name].from_wallet
                            /\ PersistedFor(name)[k].to_wallet = schedules[name].to_wallet
                      /\ pending # <<>>
                            => schedules'[name].last_executed_at = pending[Len(pending)]
          /\ lastOp'.prior # NoDate => transfers' = transfers]_vars

\* execute_due_scheduled_transfers persisted the executions of two dates or
\* more, and called again with the same up_to it persisted none
C6_Witness ==
    /\ lastOp.op = "execute_due_scheduled_transfers"
    /\ lastOp.res = "Ok"
    /\ lastOp.prior >= 2
    /\ lastOp.persisted = 0
    /\ \E name \in ScheduleNames :
          /\ schedules[name].exists
          /\ schedules[name].status = "Active"
          /\ ExecutionsOf(name, schedules[name].last_executed_at) # {}
          /\ ExecutionsOf(name, schedules[name].start_date) # {}

\* the status transitions of the schedule state machine
AllowedTransitions ==
    {<<"Active", "Paused">>, <<"Paused", "Active">>, <<"Active", "Completed">>}

\* C8: Completed is terminal, and the only changes of status ever made are
\* Active->Paused, Paused->Active and Active->Completed.
C8_CompletedIsTerminal ==
    [][\A name \in ScheduleNames :
          (schedules[name].exists /\ schedules'[name].exists
           /\ schedules'[name].status # schedules[name].status)
          => <<schedules[name].status, schedules'[name].status>> \in AllowedTransitions]_vars

\* C9: a successful execute_scheduled_transfer that applies the date d sets
\* last_executed_at to d, and sets the status to Completed exactly when the
\* end date is set and d >= end_date, leaving the status alone otherwise; the
\* same holds of the last date applied by execute_due_scheduled_transfers. A
\* Monthly schedule from 2024-01-15 ending 2024-03-15 is Completed by the
\* execution of Mar 15 and not by those of Jan 15 and Feb 15.
C9_ExecuteAdvancesAndCompletes ==
    [][/\ (lastOp'.op = "execute_scheduled_transfer" /\ lastOp'.res = "Ok")
          => \E name \in {lastOp'.name}, d \in {lastOp'.exec_date} :
                /\ transfers'[Len(transfers')].timestamp = d
                /\ transfers'[Len(transfers')].origin = name
                /\ schedules'[name].last_executed_at = d
                /\ schedules'[name].status =
                      IF schedules[name].end_date # NoDate /\ d >= schedules[name].end_date
                      THEN "Completed" ELSE schedules[name].status
                /\ (/\ schedules[name].pattern = "Monthly"
                    /\ schedules[name].start_date = Date(2024, 1, 15)
                    /\ schedules[name].end_date = Date(2024, 3, 15))
                   => /\ d = Date(2024, 3, 15) => schedules'[name].status = "Completed"
                      /\ d \in {Date(2024, 1, 15), Date(2024, 2, 15)}
                            => schedules'[name].status = schedules[name].status
       /\ (lastOp'.op = "execute_due_scheduled_transfers" /\ lastOp'.res = "Ok")
          => \A name \in ScheduleNames :
                PersistedFor(name) # <<>>
                => \E d \in {PersistedFor(name)[Len(PersistedFor(name))].timestamp} :
                      /\ schedules'[name].last_executed_at = d
                      /\ schedules'[name].status =
                            IF schedules[name].end_date # NoDate /\ d >= schedules[name].end_date
                            THEN "Completed" ELSE schedules[name].status]_vars

\* the Monthly schedule from 2024-01-15 ending 2024-03-15 after its executions
\* of Jan 15, Feb 15 and Mar 15, the last one made by execute_scheduled_transfer
C9_Witness ==
    /\ lastOp.op = "execute_scheduled_transfer"
    /\ lastOp.res = "Ok"
    /\ lastOp.exec_date = Date(2024, 3, 15)
    /\ \E name \in ScheduleNames :
          /\ schedules[name].exists
          /\ schedules[name].pattern = "Monthly"
          /\ schedules[name].end_date = Date(2024, 3, 15)
          /\ schedules[name].status = "Completed"
          /\ schedules[name].last_executed_at = Date(2024, 3, 15)
          /\ Cardinality(ExecutionsOf(name, Date(2024, 1, 15))) = 1
          /\ Cardinality(ExecutionsOf(name, Date(2024, 2, 15))) = 1
          /\ Cardinality(ExecutionsOf(name, Date(2024, 3, 15))) = 1

\* the step is a call of execute_scheduled_transfer on the schedule name, or a
\* call of execute_due_scheduled_transfers
ExecutesSchedule(name) ==
    \/ lastOp'.op = "execute_scheduled_transfer" /\ lastOp'.name = name
    \/ lastOp'.op = "execute_due_scheduled_transfers"

\* the step leaves the schedule name without a new transfer and with its
\* last_executed_at, and a call of execute_scheduled_transfer returned an error
LeavesScheduleAlone(name) ==
    /\ PersistedFor(name) = <<>>
    /\ schedules'[name].last_executed_at = schedules[name].last_executed_at
    /\ lastOp'.op = "execute_scheduled_transfer" => lastOp'.res # "Ok"

SequencesIncrease(ts) ==
    /\ \A i \in 1..Len(ts) : ts[i].sequence >= 1
    /\ \A i \in 1..Len(ts), j \in 1..Len(ts) : i < j => ts[i].sequence < ts[j].sequence

\* C17: a transfer gets its sequence number once, when save_transfer inserts
\* it, and keeps it; sequence numbers are pairwise distinct and strictly
\* increase in the order of the calls of save_transfer, whatever the timestamps
\* are: a transfer dated earlier but saved later has the larger sequence.
C17_SequenceFollowsSaveOrder ==
    [][/\ Len(transfers') >= Len(transfers)
       /\ \A i \in 1..Len(transfers) : transfers'[i].sequence = transfers[i].sequence
       /\ SequencesIncrease(transfers')]_vars

\* a transfer saved after another one and dated before it
C17_Witness ==
    \E i \in 1..Len(transfers), j \in 1..Len(transfers) :
        /\ i < j
        /\ transfers[j].timestamp < transfers[i].timestamp
        /\ transfers[i].sequence < transfers[j].sequence

\* ------------------------------------ the whole service, call by call

\* the instants of the service's clock
ServiceInstants == {SchedStart, Date(2024, 2, 20)}

\* two wallets, no transfer, no schedule, on the day a schedule may start
InitService ==
    /\ wallets = [name \in WalletNames |-> Wallet(WalletKinds[name], "EUR")]
    /\ transfers = <<>>
    /\ sequence_counter = 0
    /\ schedules = EmptySchedules
    /\ now = SchedStart
    /\ lastOp = NoOp
    /\ procs = NoProcs
    /\ fn = NoFn

\* the calls of the service, force taking its values in forces
NextService(forces) ==
    \/ \E name \in WalletNames : ArchiveWallet(name)
    \/ \E from_name \in WalletNames, to_name \in WalletNames,
          amount_cents \in RecordAmounts, force \in forces :
          RecordTransfer(from_name, to_name, amount_cents, now, NoDescription, NoCategory,
                         force)
    \/ \E transfer_id \in 1..MaxTransfers, amount \in {None} :
          ReverseTransfer(transfer_id, amount)
    \/ \E name \in ScheduleNames, from_name \in WalletNames :
          CreateScheduledTransfer(name, from_name, CHOOSE w \in WalletNames : w # from_name,
                                  SchedAmount, "Monthly", SchedStart, NoDate, "Rent", "rent")
    \/ \E name \in ScheduleNames, force \in forces :
          ExecuteScheduledTransfer(name, None, force)
    \/ ExecuteDueScheduledTransfers(now)
    \/ \E t \in ServiceInstants : AdvanceClock(t)

NextNoForce == NextService({FALSE})

SpecNoForce == InitService /\ [][NextNoForce]_vars

\* C19: after any sequence of calls of the service none of which sets force
\* (record_transfer, reverse_transfer, execute_due_scheduled_transfers), every
\* wallet whose allow_negative is false has a balance of zero or more.
C19_NoOverdraftWithoutForce ==
    \A name \in WalletNames :
        (wallets[name].exists /\ ~wallets[name].allow_negative)
            => repo_compute_balance(transfers, name) >= 0

\* C35: execute_scheduled_transfer called with no explicit date and force =
\* false on a schedule due at now applies the schedule's next due date, the
\* first element of pending_executions(now): that date, which is <= now, is
\* the timestamp of the transfer and the new last_executed_at; for a schedule
\* never executed it is start_date.
C35_AppliesTheNextDueDate ==
    [][(lastOp'.op = "execute_scheduled_transfer" /\ lastOp'.res = "Ok")
        => /\ pending_executions(schedules[lastOp'.name], now) # <<>>
           /\ lastOp'.exec_date = pending_executions(schedules[lastOp'.name], now)[1]
           /\ lastOp'.exec_date <= now
           /\ schedules[lastOp'.name].last_executed_at = NoDate
                 => lastOp'.exec_date = schedules[lastOp'.name].start_date
           /\ transfers'[Len(transfers')].timestamp = lastOp'.exec_date
           /\ schedules'[lastOp'.name].last_executed_at = lastOp'.exec_date]_vars

NextForce == NextService(BOOLEAN)

SpecForce == InitService /\ [][NextForce]_vars

\* C20: once a wallet is archived no call (record_transfer, reverse_transfer,
\* the execution of a schedule, with force or without) persists a transfer from
\* or to that wallet; the transfers stored before remain as they are.
C20_ArchivedWalletsUntouched ==
    [][/\ Len(transfers') >= Len(transfers)
       /\ \A i \in 1..Len(transfers) : transfers'[i] = transfers[i]
       /\ \A i \in (Len(transfers) + 1)..Len(transfers') :
              /\ ~is_archived(wallets[transfers'[i].from_wallet])
              /\ ~is_archived(wallets[transfers'[i].to_wallet])]_vars

\* --------------------------- the transfer log under every call that writes

\* LedgerService::check_integrity: the statistics, the wallets and the balances
\* are read and the report is built; nothing is written
CheckIntegrity ==
    /\ lastOp' = [op |-> "check_integrity", res |-> "Ok"]
    /\ UNCHANGED <<wallets, transfers, sequence_counter, schedules, now, procs, fn>>

\* a call of execute_scheduled_transfer whose record_transfer returned Ok and
\* whose update_last_executed fails: the error of the repository is returned
\* by `?`, the schedule row is not written
ExecuteScheduledTransferFails(name, execution_date, force) ==
    /\ \E r \in {execute_scheduled_transfer(wallets, Db, schedules, now, name,
                                            execution_date, force)} :
          /\ r.res = "Ok"
          /\ Len(r.transfers) <= MaxScheduled
          /\ transfers' = r.transfers
          /\ sequence_counter' = r.sequence_counter
          /\ lastOp' = [op |-> "execute_scheduled_transfer", res |-> "Database",
                        name |-> name, exec_date |-> r.exec_date, force |-> force]
    /\ UNCHANGED <<wallets, schedules, now, procs, fn>>

LogCurrencies == {"EUR", "USD"}
LogAmounts == {0, 1}
LogEnds == {NoDate, SchedStart}

\* the asset wallet A alone, empty; the expense wallet B is created later
InitLog ==
    /\ wallets = [EmptyWallets EXCEPT !["A"] = Wallet(WalletKinds["A"], "EUR")]
    /\ transfers = <<>>
    /\ sequence_counter = 0
    /\ schedules = EmptySchedules
    /\ now = SchedStart
    /\ lastOp = NoOp
    /\ procs = NoProcs
    /\ fn = NoFn

NextLog ==
    \/ \E currency \in LogCurrencies : CreateWallet("B", WalletKinds["B"], currency)
    \/ \E name \in WalletNames : ArchiveWallet(name)
    \/ \E from_name \in WalletNames, amount_cents \in LogAmounts, force \in BOOLEAN :
          RecordTransfer(from_name, CHOOSE w \in WalletNames : w # from_name, amount_cents,
                         now, NoDescription, NoCategory, force)
    \/ \E transfer_id \in 1..MaxTransfers : ReverseTransfer(transfer_id, None)
    \/ \E name \in ScheduleNames, from_name \in WalletNames, end_date \in LogEnds :
          CreateScheduledTransfer(name, from_name, CHOOSE w \in WalletNames : w # from_name,
                                  SchedAmount, "Monthly", SchedStart, end_date, "Rent", "rent")
    \/ \E name \in ScheduleNames, force \in BOOLEAN :
          ExecuteScheduledTransfer(name, None, force)
    \/ \E name \in ScheduleNames, force \in BOOLEAN :
          ExecuteScheduledTransferFails(name, None, force)
    \/ ExecuteDueScheduledTransfers(now)
    \/ CheckIntegrity

SpecLog == InitLog /\ [][NextLog]_vars

\* C21: the transfer log is append-only: no call of the service
\* (reverse_transfer, the execution of a schedule, archive_wallet and
\* check_integrity included) deletes a persisted transfer or changes a field of
\* one; a reversal adds a transfer and leaves the original as it was.
C21_LogIsAppendOnly ==
    [][/\ Len(transfers') >= Len(transfers)
       /\ \A i \in 1..Len(transfers) : transfers'[i] = transfers[i]
       /\ (lastOp'.op = "reverse_transfer" /\ lastOp'.res = "Ok") =>
              /\ Len(transfers') = Len(transfers) + 1
              /\ \E i \in 1..Len(transfers) :
                     transfers'[Len(transfers')].reverses = transfers[i].id
       /\ lastOp'.op \in {"archive_wallet", "check_integrity"} => transfers' = transfers]_vars

\* a transfer that was reversed while a scheduled execution, the archival of a
\* wallet and an integrity check have taken place: it is stored as recorded
C21_Witness ==
    /\ lastOp.op = "check_integrity"
    /\ \E i \in 1..Len(transfers), j \in 1..Len(transfers), k \in 1..Len(transfers) :
          /\ transfers[i].reverses = NoId /\ transfers[i].origin = NoOrigin
          /\ transfers[j].reverses = transfers[i].id
          /\ transfers[k].origin \in ScheduleNames
    /\ \E name \in WalletNames : wallets[name].exists /\ is_archived(wallets[name])

\* the errors LedgerService::record_transfer returns after a failed validation
RecordErrors ==
    {"InvalidAmount", "WalletNotFound", "WalletArchived", "CurrencyMismatch",
     "InsufficientFunds"}

\* the step is a call that returned an error: record_transfer with one of its
\* validation errors, or execute_scheduled_transfer with any error
FailedCall ==
    \/ lastOp'.op = "record_transfer" /\ lastOp'.res \in RecordErrors
    \/ lastOp'.op = "execute_scheduled_transfer" /\ lastOp'.res # "Ok"

\* C24: failure leaves the state unchanged: whenever record_transfer returns
\* InvalidAmount, WalletNotFound, WalletArchived, CurrencyMismatch or
\* InsufficientFunds, and whenever execute_scheduled_transfer returns an error,
\* the persisted transfers, the sequence counter and every schedule's
\* last_executed_at and status are as they were before the call.
C24_FailureLeavesStateUnchanged ==
    [][FailedCall =>
          /\ transfers' = transfers
          /\ sequence_counter' = sequence_counter
          /\ \A name \in ScheduleNames :
                 schedules[name].exists =>
                    /\ schedules'[name].last_executed_at = schedules[name].last_executed_at
                    /\ schedules'[name].status = schedules[name].status]_vars

\* ------------------- execute_due_scheduled_transfers, statement by statement

\* the call in progress: the rows listed when it started, the schedule it is
\* at (k), that schedule's pending dates, the date it is at (i) and the row
\* execute_scheduled_transfer read for it
DueCall(pc, up_to, listed, k, pending, i) ==
    [pc |-> pc, up_to |-> up_to, listed |-> listed, k |-> k, pending |-> pending, i |-> i,
     scheduled |-> Absent]

InitCrash ==
    /\ wallets = [name \in WalletNames |-> Wallet(WalletKinds[name], "EUR")]
    /\ transfers = save_transfer([transfers |-> <<>>, sequence_counter |-> 0],
                                 Transfer(1, "B", "A", SchedFunding, Date(2024, 1, 1),
                                          NoCategory, NoId, NoOrigin)).transfers
    /\ sequence_counter = 1
    /\ schedules = EmptySchedules
    /\ now = Date(2024, 1, 1)
    /\ lastOp = NoOp
    /\ procs = Idle
    /\ fn = NoFn

\* the call ends and returns res
DueReturn(res) ==
    /\ lastOp' = [op |-> "execute_due_scheduled_transfers", res |-> res,
                  up_to |-> procs.up_to]
    /\ procs' = Idle

\* execute_due_scheduled_transfers(up_to) is called: list_scheduled_transfers
DueBegin(up_to) ==
    /\ procs.pc = "idle"
    /\ procs' = DueCall("schedule", up_to, schedules, 1, <<>>, 1)
    /\ UNCHANGED <<wallets, transfers, sequence_counter, schedules, now, lastOp, fn>>

\* the outer loop: the next schedule listed and its pending_executions(up_to)
DueSchedule ==
    /\ procs.pc = "schedule"
    /\ IF procs.k > Len(ScheduleOrder) THEN DueReturn("Ok")
       ELSE /\ UNCHANGED lastOp
            /\ \E scheduled \in {procs.listed[ScheduleOrder[procs.k]]} :
                  procs' =
                     IF ~scheduled.exists \/ scheduled.status # "Active"
                     THEN [procs EXCEPT !.k = @ + 1]
                     ELSE [procs EXCEPT !.pc = "date", !.i = 1,
                              !.pending = pending_executions(scheduled, procs.up_to)]
    /\ UNCHANGED <<wallets, transfers, sequence_counter, schedules, now, fn>>

\* the inner loop: execute_scheduled_transfer(name, Some(date), false) up to its
\* call of record_transfer
DueDate ==
    /\ procs.pc = "date"
    /\ IF procs.i > Len(procs.pending)
       THEN /\ procs' = [procs EXCEPT !.pc = "schedule", !.k = @ + 1]
            /\ UNCHANGED lastOp
       ELSE \E scheduled \in {schedules[ScheduleOrder[procs.k]]} :
               IF ~scheduled.exists THEN DueReturn("ScheduledTransferNotFound")
               ELSE IF scheduled.status = "Completed" THEN DueReturn("ScheduleCompleted")
               ELSE IF scheduled.status = "Paused" THEN DueReturn("ScheduleNotDue")
               ELSE IF ~wallets[scheduled.from_wallet].exists
                       \/ ~wallets[scheduled.to_wallet].exists
                    THEN DueReturn("WalletNotFound")
               ELSE /\ procs' = [procs EXCEPT !.pc = "record_transfer",
                                    !.scheduled = scheduled]
                    /\ UNCHANGED lastOp
    /\ UNCHANGED <<wallets, transfers, sequence_counter, schedules, now, fn>>

\* execute_scheduled_transfer: record_transfer
DueRecordTransfer ==
    /\ procs.pc = "record_transfer"
    /\ \E r \in {record_transfer(wallets, Db, procs.scheduled.from_wallet,
                                 procs.scheduled.to_wallet, procs.scheduled.amount_cents,
                                 procs.pending[procs.i], procs.scheduled.description,
                                 procs.scheduled.category, FALSE, ScheduleOrder[procs.k])} :
          /\ Len(r.transfers) <= MaxScheduled
          /\ transfers' = r.transfers
          /\ sequence_counter' = r.sequence_counter
          /\ IF r.res # "Ok" THEN DueReturn(r.res)
             ELSE /\ procs' = [procs EXCEPT !.pc = "update_last_executed"]
                  /\ UNCHANGED lastOp
    /\ UNCHANGED <<wallets, schedules, now, fn>>

\* execute_scheduled_transfer: update_last_executed
DueUpdateLastExecuted ==
    /\ procs.pc = "update_last_executed"
    /\ schedules' = update_last_executed(schedules, ScheduleOrder[procs.k],
                                         procs.pending[procs.i])
    /\ procs' = IF /\ procs.scheduled.end_date # NoDate
                   /\ procs.pending[procs.i] >= procs.scheduled.end_date
                THEN [procs EXCEPT !.pc = "update_status"]
                ELSE [procs EXCEPT !.pc = "date", !.i = @ + 1]
    /\ UNCHANGED <<wallets, transfers, sequence_counter, now, lastOp, fn>>

\* execute_scheduled_transfer: update_scheduled_transfer_status(Completed)
DueUpdateStatus ==
    /\ procs.pc = "update_status"
    /\ schedules' = update_scheduled_transfer_status(schedules, ScheduleOrder[procs.k],
                                                     "Completed")
    /\ procs' = [procs EXCEPT !.pc = "date", !.i = @ + 1]
    /\ UNCHANGED <<wallets, transfers, sequence_counter, now, lastOp, fn>>

\* the process is killed, or a statement fails, while the call is in progress:
\* what the statements before it wrote stays written
Crash ==
    /\ procs.pc # "idle"
    /\ procs' = Idle
    /\ lastOp' = [op |-> "execute_due_scheduled_transfers", res |-> "interrupted",
                  up_to |-> procs.up_to]
    /\ UNCHANGED <<wallets, transfers, sequence_counter, schedules, now, fn>>

NextCrash ==
    \/ \E name \in ScheduleNames, from_name \in WalletNames, pattern \in SchedPatterns,
          end_date \in SchedEnds :
          CreateScheduledTransfer(name, from_name, CHOOSE w \in WalletNames : w # from_name,
                                  SchedAmount, pattern, SchedStart, end_date, "Rent", "rent")
    \/ \E up_to \in SchedInstants : DueBegin(up_to)
    \/ DueSchedule
    \/ DueDate
    \/ DueRecordTransfer
    \/ DueUpdateLastExecuted
    \/ DueUpdateStatus
    \/ Crash

SpecCrash == InitCrash /\ [][NextCrash]_vars

\* C7: when execute_scheduled_transfer is interrupted after the transfer for
\* the date d is persisted and before last_executed_at is updated, running
\* execute_due_scheduled_transfers again does not persist a second transfer
\* for d: no two transfers of a schedule carry the same date.
C7_NoDoubleBookingAfterCrash ==
    \A i \in DOMAIN transfers, j \in DOMAIN transfers :
        (/\ transfers[i].origin # NoOrigin
         /\ transfers[i].origin = transfers[j].origin
         /\ transfers[i].timestamp = transfers[j].timestamp)
        => i = j

\* ------------------------------------------------------- budgets and spend

\* DateTime::to_rfc3339 of an instant of Utc: date, time of day, the
\* milliseconds when the sub-second part is not zero, and the offset +00:00
Pad3(n) == IF n < 10 THEN <<"0", "0">> \o ToDigits(n)
           ELSE IF n < 100 THEN <<"0">> \o ToDigits(n) ELSE ToDigits(n)
to_rfc3339(t) ==
    Only({ToDigits(date.year) \o <<"-">> \o DisplayPad2(date.month) \o <<"-">>
            \o DisplayPad2(date.day) \o <<"T">> \o DisplayPad2(SecOf(t) \div 3600)
            \o <<":">> \o DisplayPad2((SecOf(t) % 3600) \div 60)
            \o <<":">> \o DisplayPad2(SecOf(t) % 60)
            \o (IF SubOf(t) = 0 THEN <<>>
                ELSE <<".">> \o Pad3((SubOf(t) * 1000) \div SubsPerSec))
            \o <<"+", "0", "0", ":", "0", "0">> :
          date \in {date_naive(t)}})

\* the byte of a character of such a string
AsciiCode(c) ==
    IF IsDigit(c) THEN 48 + DigitValue(c)
    ELSE IF c = "+" THEN 43 ELSE IF c = "-" THEN 45 ELSE IF c = "." THEN 46
    ELSE IF c = ":" THEN 58 ELSE 84

\* a < b between two TEXT values of SQLite: byte by byte, a proper prefix
\* before the longer text
RECURSIVE TextLess(_, _)
TextLess(a, b) ==
    IF b = <<>> THEN FALSE
    ELSE IF a = <<>> THEN TRUE
    ELSE IF a[1] # b[1] THEN AsciiCode(a[1]) < AsciiCode(b[1])
    ELSE TextLess(Tail(a), Tail(b))

\* the WHERE clause with the end of the range included
InCategoryAndRange_EndIncluded(transfer, category, from_text, to_text) ==
    /\ transfer.category # NoCategory
    /\ transfer.category = category
    /\ ~TextLess(to_rfc3339(transfer.timestamp), from_text)
    /\ ~TextLess(to_text, to_rfc3339(transfer.timestamp))

\* the WHERE clause of sum_transfers_by_category: the bounds are bound as
\* their to_rfc3339 texts; a NULL category equals nothing
InCategoryAndRange(transfer, category, from_text, to_text) ==
    /\ transfer.category # NoCategory
    /\ transfer.category = category
    /\ ~TextLess(to_rfc3339(transfer.timestamp), from_text)
    /\ TextLess(to_rfc3339(transfer.timestamp), to_text)

\* COALESCE(SUM(amount_cents), 0) of the first i rows
RECURSIVE SumInRange(_, _, _, _, _)
SumInRange(ts, i, category, from_text, to_text) ==
    IF i = 0 THEN 0
    ELSE SumInRange(ts, i - 1, category, from_text, to_text)
         + (IF InCategoryAndRange(ts[i], category, from_text, to_text)
            THEN ts[i].amount_cents ELSE 0)

\* Repository::sum_transfers_by_category
sum_transfers_by_category(ts, category, from_date, to_date) ==
    SumInRange(ts, Len(ts), category, to_rfc3339(from_date), to_rfc3339(to_date))

\* Budget::new
Budget(category, period_type, amount_cents) ==
    [exists |-> TRUE, category |-> category, period_type |-> period_type,
     amount_cents |-> amount_cents]

BudgetNames == {"groceries"}
EmptyBudgets == [b \in BudgetNames |-> Absent]

\* LedgerService::get_budget_status at the instant t (Utc::now()) on the
\* budgets table and the transfers ts
get_budget_status(budgets, ts, name, t) ==
    IF ~budgets[name].exists
    THEN [res |-> "WalletNotFound", spent |-> 0, remaining |-> 0,
          period_start |-> NoDate, period_end |-> NoDate]
    ELSE Only({IF period.outcome = "panic"
               THEN [res |-> "Panic", spent |-> 0, remaining |-> 0,
                     period_start |-> NoDate, period_end |-> NoDate]
               ELSE Only({[res |-> "Ok", spent |-> spent,
                           remaining |-> budgets[name].amount_cents - spent,
                           period_start |-> period.start, period_end |-> period.end] :
                          spent \in {sum_transfers_by_category(ts, budgets[name].category,
                                                               period.start, period.end)}}) :
               period \in {current_period(budgets[name].period_type, t)}})

\* the budgets table is the variable procs of this specification

\* LedgerService::create_budget
CreateBudget(name, category, amount_cents, period_type) ==
    /\ IF procs[name].exists
       THEN /\ lastOp' = [op |-> "create_budget", res |-> "WalletAlreadyExists"]
            /\ UNCHANGED procs
       ELSE /\ lastOp' = [op |-> "create_budget", res |-> "Ok"]
            /\ procs' = [procs EXCEPT ![name] = Budget(category, period_type, amount_cents)]
    /\ UNCHANGED <<wallets, transfers, sequence_counter, schedules, now, fn>>

\* a call of LedgerService::get_budget_status
GetBudgetStatus(name) ==
    /\ fn' = [op |-> "get_budget_status", name |-> name,
              out |-> get_budget_status(procs, transfers, name, now)]
    /\ lastOp' = [op |-> "get_budget_status", res |-> fn'.out.res]
    /\ UNCHANGED <<wallets, transfers, sequence_counter, schedules, now, procs>>

\* most transfers persisted where budgets are queried
MaxBudgetTransfers == 2

\* the instants of the queries: in the first week of January 2024, the Monday
\* after, and the first of February
BudgetNows == {At(2024, 1, 3, 0, 1), Date(2024, 1, 8), Date(2024, 2, 1)}

\* the dates of the transfers: the last instant of 2023, the first of 2024 (a
\* Monday), the Monday after, and the first of February
BudgetDates ==
    {At(2023, 12, 31, SecsPerDay - 1, SubsPerSec - 1), Date(2024, 1, 1),
     Date(2024, 1, 8), Date(2024, 2, 1)}
BudgetCategories == {NoCategory, "groceries", "rent"}
BudgetAmounts == {100}
BudgetLimit == 120

\* the checking account A and the expense wallet B, no transfer, no budget
InitBudget ==
    /\ wallets = [w \in WalletNames |-> Wallet(WalletKinds[w], "EUR")]
    /\ transfers = <<>>
    /\ sequence_counter = 0
    /\ schedules = EmptySchedules
    /\ now = At(2024, 1, 3, 0, 1)
    /\ lastOp = NoOp
    /\ procs = EmptyBudgets
    /\ fn = NoFn

NextBudget ==
    \/ \E name \in BudgetNames, period_type \in PeriodTypes :
          CreateBudget(name, "groceries", BudgetLimit, period_type)
    \/ \E amount_cents \in BudgetAmounts, timestamp \in BudgetDates,
          category \in BudgetCategories :
          /\ Len(transfers) < MaxBudgetTransfers
          /\ RecordTransfer("A", "B", amount_cents, timestamp, NoDescription, category, TRUE)
    \/ \E transfer_id \in 1..MaxBudgetTransfers, amount \in {None, Some(10)} :
          /\ Len(transfers) < MaxBudgetTransfers
          /\ ReverseTransfer(transfer_id, amount)
    \/ \E t \in BudgetNows : AdvanceClock(t)
    \/ \E name \in BudgetNames : GetBudgetStatus(name)

SpecBudget == InitBudget /\ [][NextBudget]_vars

\* the spend of a budget over [period_start, period_end): the amounts of the
\* transfers of its category dated in the period
RECURSIVE SpendIn(_, _, _, _, _)
SpendIn(ts, i, category, period_start, period_end) ==
    IF i = 0 THEN 0
    ELSE SpendIn(ts, i - 1, category, period_start, period_end)
         + (IF /\ ts[i].category = category
               /\ period_start <= ts[i].timestamp
               /\ ts[i].timestamp < period_end
            THEN ts[i].amount_cents ELSE 0)

\* C31: get_budget_status reports spent = the sum of amount_cents of exactly
\* the persisted transfers of the budget's category dated in
\* [period_start, period_end), the current period of the query's instant, and
\* remaining = budget.amount_cents - spent, on every query.
C31_SpentIsThePeriodSum ==
    [][(lastOp'.op = "get_budget_status" /\ procs'[fn'.name].exists)
        => /\ fn'.out.res = "Ok"
           /\ fn'.out.period_start <= now' /\ now' < fn'.out.period_end
           /\ fn'.out.spent = SpendIn(transfers', Len(transfers'), procs'[fn'.name].category,
                                      fn'.out.period_start, fn'.out.period_end)
           /\ fn'.out.remaining = procs'[fn'.name].amount_cents - fn'.out.spent]_vars

\* a query that counts one transfer and leaves out one of the same category
\* dated at period_end
C31_Witness ==
    /\ lastOp.op = "get_budget_status" /\ lastOp.res = "Ok"
    /\ fn.out.spent > 0 /\ fn.out.remaining < BudgetLimit
    /\ \E i \in DOMAIN transfers :
          /\ transfers[i].category = procs[fn.name].category
          /\ transfers[i].timestamp = fn.out.period_end

\* C40: reversing a transfer of a budget's category, in full or in part, with
\* the transfer and its reversal dated in the budget's current period, never
\* increases the spend reported for the budget: spent after the reversal is
\* at most spent before it.
C40_ReversalNeverAddsSpend ==
    [][(lastOp'.op = "reverse_transfer" /\ lastOp'.res = "Ok")
        => \A name \in BudgetNames :
              \E before \in {get_budget_status(procs, transfers, name, now)},
                 after \in {get_budget_status(procs, transfers', name, now)},
                 reversal \in {transfers'[Len(transfers')]} :
                 (/\ before.res = "Ok" /\ after.res = "Ok"
                  /\ \E i \in DOMAIN transfers :
                        /\ transfers[i].id = reversal.reverses
                        /\ transfers[i].category = procs[name].category
                        /\ before.period_start <= transfers[i].timestamp
                        /\ transfers[i].timestamp < before.period_end
                  /\ before.period_start <= reversal.timestamp
                  /\ reversal.timestamp < before.period_end)
                    => after.spent <= before.spent]_vars

\* ------------------------------------------- the report of check_integrity

\* Repository::get_integrity_stats: the transfers whose from or to wallet is
\* no row of wallets, and the transfers of an amount <= 0
invalid_wallet_refs(ws, ts) ==
    Cardinality({i \in 1..Len(ts) :
                    ~ws[ts[i].from_wallet].exists \/ ~ws[ts[i].to_wallet].exists})
invalid_amounts(ts) == Cardinality({i \in 1..Len(ts) : ts[i].amount_cents <= 0})

\* build_integrity_report: the issues pushed
IntegrityIssues(gaps, refs, amounts, total_balance) ==
    (IF gaps THEN {"SequenceGaps"} ELSE {})
        \cup (IF refs > 0 THEN {"InvalidWalletReferences"} ELSE {})
        \cup (IF amounts > 0 THEN {"InvalidAmounts"} ELSE {})
        \cup (IF total_balance # 0 THEN {"UnbalancedLedger"} ELSE {})

\* LedgerService::check_integrity on the wallets ws and the transfers ts
check_integrity(ws, ts) ==
    Only({[transfer_count |-> Len(ts),
           total_balance |-> total_balance,
           is_balanced |-> total_balance = 0,
           issues |-> IntegrityIssues(has_sequence_gaps(ts), invalid_wallet_refs(ws, ts),
                                      invalid_amounts(ts), total_balance)] :
          total_balance \in {Only({SumValues(balances, DOMAIN balances) :
                                   balances \in {compute_all_balances(ts)}})}})

\* a call of record_transfer that passes every validation and whose INSERT in
\* save_transfer fails after next_sequence: the error is returned by `?`
RecordTransferFails(from_name, to_name, amount_cents, timestamp, description, category, force) ==
    /\ \E r \in {record_transfer(wallets, Db, from_name, to_name, amount_cents, timestamp,
                                  description, category, force, NoOrigin)} :
          /\ r.res = "Ok"
          /\ r.sequence_counter <= MaxScheduled
          /\ sequence_counter' = r.sequence_counter
          /\ lastOp' = [op |-> "record_transfer", res |-> "Database"]
    /\ UNCHANGED <<wallets, transfers, schedules, now, procs, fn>>

NextIntegrity ==
    \/ CreateWallet("B", WalletKinds["B"], "EUR")
    \/ \E name \in WalletNames : ArchiveWallet(name)
    \/ \E from_name \in WalletNames, amount_cents \in LogAmounts, force \in BOOLEAN :
          RecordTransfer(from_name, CHOOSE w \in WalletNames : w # from_name, amount_cents,
                         now, NoDescription, NoCategory, force)
    \/ \E from_name \in WalletNames :
          RecordTransferFails(from_name, CHOOSE w \in WalletNames : w # from_name, 1,
                              now, NoDescription, NoCategory, TRUE)
    \/ \E transfer_id \in 1..MaxTransfers : ReverseTransfer(transfer_id, None)
    \/ \E name \in ScheduleNames :
          CreateScheduledTransfer(name, "A", "B", SchedAmount, "Monthly", SchedStart, NoDate,
                                  "Rent", "rent")
    \/ \E name \in ScheduleNames : PauseScheduledTransfer(name)
    \/ \E name \in ScheduleNames : ResumeScheduledTransfer(name)
    \/ \E name \in ScheduleNames, force \in BOOLEAN :
          ExecuteScheduledTransfer(name, None, force)
    \/ CheckIntegrity

SpecIntegrity == InitLog /\ [][NextIntegrity]_vars

\* C32: after any sequence of service operations, succeeded or failed,
\* check_integrity reports a healthy ledger: total balance 0, no sequence
\* gaps, no transfer of a wallet that does not exist, no transfer of an
\* amount <= 0.
C32_IntegrityAlwaysHealthy ==
    lastOp.op = "check_integrity" =>
        /\ check_integrity(wallets, transfers).total_balance = 0
        /\ check_integrity(wallets, transfers).issues = {}

\* ------------------------------- pending_executions, statement by statement

\* the call has not started
PendingEntry == [pc |-> "entry", current |-> NoDate, executions |-> <<>>]

InitPending ==
    /\ wallets = EmptyWallets
    /\ transfers = <<>>
    /\ sequence_counter = 0
    /\ schedules = EmptySchedules
    /\ lastOp = NoOp
    /\ procs = PendingEntry
    /\ \E st \in RecurSchedules :
          /\ fn = [op |-> "input", st |-> st]
          /\ now \in RecurNows(st.pattern)

\* pending_executions(now), the statements before the loop: the two early
\* returns and the push of start_date
PendingBegin ==
    /\ procs.pc = "entry"
    /\ procs' =
          IF fn.st.status # "Active" \/ ReferenceDate(fn.st) > now
          THEN [pc |-> "return", current |-> NoDate, executions |-> <<>>]
          ELSE IF fn.st.last_executed_at = NoDate /\ fn.st.start_date <= now
               THEN [pc |-> "loop", current |-> fn.st.start_date,
                     executions |-> <<fn.st.start_date>>]
               ELSE [pc |-> "loop", current |-> ReferenceDate(fn.st), executions |-> <<>>]
    /\ UNCHANGED <<wallets, transfers, sequence_counter, schedules, now, lastOp, fn>>

\* one iteration of the loop: next is computed, and either a break leaves the
\* loop or next is pushed and becomes current
PendingIterate ==
    /\ procs.pc = "loop"
    /\ \E next \in {Advance(fn.st.pattern, procs.current)} :
          procs' =
             IF next > now \/ (fn.st.end_date # NoDate /\ next > fn.st.end_date)
             THEN [procs EXCEPT !.pc = "return"]
             ELSE [procs EXCEPT !.current = next,
                                !.executions = Append(procs.executions, next)]
    /\ UNCHANGED <<wallets, transfers, sequence_counter, schedules, now, lastOp, fn>>

NextPending == PendingBegin \/ PendingIterate

\* the call runs on once started: no statement waits for anything
SpecPending == InitPending /\ [][NextPending]_vars /\ WF_vars(NextPending)

\* C33: pending_executions terminates for every schedule and every now: each
\* iteration of the loop that goes on advances the current date strictly, and
\* the call returns, with a finite list, after finitely many steps.
C33_PendingTerminates ==
    /\ [][(procs.pc = "loop" /\ procs'.pc = "loop") => procs'.current > procs.current]_vars
    /\ <>(procs.pc = "return")

\* a call that returned after the loop went round three times at least
C33_Witness ==
    /\ procs.pc = "return"
    /\ Len(procs.executions) >= 3
    /\ procs.executions = pending_executions(fn.st, now)

\* -------------------------- execute_due_scheduled_transfers, two schedules

\* the schedules of the table and the order list_scheduled_transfers reads
\* them in (ORDER BY name)
DueNames == {"R", "S"}
DueOrder == <<"R", "S">>

\* the outer loop of execute_due_scheduled_transfers over the schedules read
\* in the given order: the error of an execution is returned by `?`
RECURSIVE ExecuteSchedulesIn(_, _, _, _, _, _, _)
ExecuteSchedulesIn(order, ws, st, listed, t, up_to, k) ==
    IF k > Len(order) THEN st
    ELSE IF ~listed[order[k]].exists \/ listed[order[k]].status # "Active"
         THEN ExecuteSchedulesIn(order, ws, st, listed, t, up_to, k + 1)
    ELSE Only({IF r.res # "Ok" THEN r
               ELSE ExecuteSchedulesIn(order, ws, r, listed, t, up_to, k + 1) :
               r \in {ExecuteDates(ws, st, t, order[k], pending, 1) :
                         pending \in {pending_executions(listed[order[k]], up_to)}}})

\* a call of LedgerService::execute_due_scheduled_transfers on that table
ExecuteDueInOrder(order, up_to) ==
    /\ \E r \in {ExecuteSchedulesIn(order, wallets, SchedReturned("Ok", Db, schedules, NoDate),
                                    schedules, now, up_to, 1)} :
          /\ Len(r.transfers) <= MaxScheduled
          /\ transfers' = r.transfers
          /\ sequence_counter' = r.sequence_counter
          /\ schedules' = r.schedules
          /\ lastOp' = [op |-> "execute_due_scheduled_transfers", res |-> r.res,
                        up_to |-> up_to]
    /\ UNCHANGED <<wallets, now, procs, fn>>

\* the checking account A, empty, and the expense wallet B; no schedule
InitDue ==
    /\ wallets = [name \in WalletNames |-> Wallet(WalletKinds[name], "EUR")]
    /\ transfers = <<>>
    /\ sequence_counter = 0
    /\ schedules = [name \in DueNames |-> Absent]
    /\ now = SchedStart
    /\ lastOp = NoOp
    /\ procs = NoProcs
    /\ fn = NoFn

NextDue ==
    \/ \E name \in DueNames, from_name \in WalletNames :
          CreateScheduledTransfer(name, from_name, CHOOSE w \in WalletNames : w # from_name,
                                  SchedAmount, "Monthly", SchedStart, NoDate, "Rent", "rent")
    \/ RecordTransfer("B", "A", SchedAmount, now, NoDescription, NoCategory, FALSE)
    \/ ExecuteDueInOrder(DueOrder, now)
    \/ \E t \in ServiceInstants : AdvanceClock(t)

SpecDue == InitDue /\ [][NextDue]_vars

\* the transfers of the schedule name cannot fail: its wallets are not
\* archived and its source wallet may go negative
CannotFail(name) ==
    /\ schedules[name].exists /\ schedules[name].status = "Active"
    /\ ~is_archived(wallets[schedules[name].from_wallet])
    /\ ~is_archived(wallets[schedules[name].to_wallet])
    /\ wallets[schedules[name].from_wallet].allow_negative

\* C37: execute_due_scheduled_transfers(up_to) applies the pending dates of
\* every Active schedule whose own transfers can succeed, also when the
\* execution of another schedule fails in the same call.
C37_OneFailureStopsNoOtherSchedule ==
    [][lastOp'.op = "execute_due_scheduled_transfers"
        => \A name \in DueNames :
              CannotFail(name)
                 => \A k \in 1..Len(pending_executions(schedules[name], lastOp'.up_to)) :
                       \E i \in DOMAIN transfers' :
                          /\ i > Len(transfers)
                          /\ transfers'[i].origin = name
                          /\ transfers'[i].timestamp
                                = pending_executions(schedules[name], lastOp'.up_to)[k]]_vars

\* ------------------------------------- a schedule that reaches its end date

EndPatterns == {"Weekly", "Monthly"}
\* Jan 22 is an execution date of the Weekly schedule only, Feb 15 of the
\* Monthly schedule only, Jan 25 of neither
EndEnds == {Date(2024, 1, 22), Date(2024, 1, 25), Date(2024, 2, 15)}
\* the instants the clock shows, also used as up_to
EndInstants == {Date(2024, 1, 15), Date(2024, 1, 25), Date(2024, 2, 20)}

\* the checking account A, empty, and the expense wallet B; no schedule
InitEnd ==
    /\ wallets = [name \in WalletNames |-> Wallet(WalletKinds[name], "EUR")]
    /\ transfers = <<>>
    /\ sequence_counter = 0
    /\ schedules = EmptySchedules
    /\ now = Date(2024, 1, 1)
    /\ lastOp = NoOp
    /\ procs = NoProcs
    /\ fn = NoFn

\* the schedule pays from the expense wallet B, whose balance may go negative
NextEnd ==
    \/ \E name \in ScheduleNames, pattern \in EndPatterns, end_date \in EndEnds :
          CreateScheduledTransfer(name, "B", "A", SchedAmount, pattern, SchedStart, end_date,
                                  "Rent", "rent")
    \/ \E name \in ScheduleNames : PauseScheduledTransfer(name)
    \/ \E name \in ScheduleNames : ResumeScheduledTransfer(name)
    \/ \E up_to \in EndInstants : ExecuteDueScheduledTransfers(up_to)
    \/ \E t \in EndInstants : AdvanceClock(t)

SpecEnd == InitEnd /\ [][NextEnd]_vars

\* C38: once execute_due_scheduled_transfers(up_to) has succeeded with
\* up_to >= end_date, an Active schedule with an end date is Completed,
\* whatever its start date, pattern and end date, also when the end date is
\* not itself an execution date.
C38_CompletedOnceEndIsPassed ==
    [][(lastOp'.op = "execute_due_scheduled_transfers" /\ lastOp'.res = "Ok")
        => \A name \in ScheduleNames :
              (/\ schedules[name].exists
               /\ schedules[name].status = "Active"
               /\ schedules[name].end_date # NoDate
               /\ lastOp'.up_to >= schedules[name].end_date)
                 => schedules'[name].status = "Completed"]_vars

====
